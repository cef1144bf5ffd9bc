------------------------------- MODULE MCBudget -------------------------------
(* Instances of ReplayBudget for TLC.  The budget is three units.             *)
EXTENDS BudgetInvariant
CONSTANTS here, there, away, a, b, c, sticker

Places == {here, there, away}
OneChat == {here}
(* One name for each row, and one more for each interrupted conversion.       *)
FewNames == {a, b, c, sticker}

(* Rows an older release left: media inline, which can be converted; text     *)
(* that cannot; a marker that no release knows; and receipts, one of them     *)
(* with a context that is too large.                                          *)
OldRow == [NoRow EXCEPT !.st = "queued", !.chat = here, !.ver = 1]
InlineMedia == [OldRow EXCEPT !.chat = away, !.inline = 4, !.opaque = 3]
OpaqueText == [OldRow EXCEPT !.opaque = 4]
UnknownRow == [OldRow EXCEPT !.ver = 0, !.opaque = 1]
LargeRow == [OldRow EXCEPT !.ver = 2, !.opaque = 4, !.media = {sticker}]
Receipt == [OldRow EXCEPT !.st = "sent_pending", !.ver = 2, !.meta = 1, !.media = {sticker}]
LargeReceipt == [Receipt EXCEPT !.meta = 4, !.media = {}]

Request(ch, prio, kept, opaque, n) ==
    [chat |-> ch, prio |-> prio, kept |-> kept, opaque |-> opaque, meta |-> 0, files |-> n]
Photo == Request(here, 0, TRUE, 1, 1)
MediaEdit == Request(there, 1, FALSE, 1, 1)
Text == Request(here, 0, TRUE, 1, 0)

AnyTable == {<<InlineMedia>>, <<OpaqueText>>, <<UnknownRow>>, <<LargeRow>>,
             <<Receipt>>, <<LargeReceipt>>}
OpaqueTable == {<<OpaqueText>>}
MixedCalls == {Photo, MediaEdit}
TextCalls == {Text}
==============================================================================
