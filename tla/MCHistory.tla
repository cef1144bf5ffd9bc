------------------------------ MODULE MCHistory ------------------------------
(* Instances of HistoryHandoff for TLC.                                       *)
EXTENDS HistoryInvariant
CONSTANTS forum, chat    \* two Telegram chats

(* Two chats, so that two threads work at once, or two topics of one forum.   *)
TwoLinks == {"a", "b"}
TwoTargets == {forum, chat}
TwoChats == [l \in TwoLinks |-> IF l = "a" THEN forum ELSE chat]
OneForum == [l \in TwoLinks |-> forum]

(* Texts that may be joined, a message without content between them, and a    *)
(* medium that sends what was joined before it; and a link with one text.     *)
MixedHistory == [l \in TwoLinks |-> IF l = "a" THEN <<"text", "empty", "text">> ELSE <<"media">>]
ShortHistory == [l \in TwoLinks |-> IF l = "a" THEN <<"text", "media">> ELSE <<"text">>]

(* An entry that an older version staged.                                     *)
OldEntry == {[id |-> 1, link |-> "a", gen |-> 0, pos |-> 1]}
NoEntries == {}
==============================================================================
