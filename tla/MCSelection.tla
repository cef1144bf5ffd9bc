----------------------------- MODULE MCSelection ------------------------------
(* Instances of SenderSelection for TLC.                                      *)
EXTENDS SenderSelection
CONSTANTS forum, slave, none, anyone

TwoBots == {1, 2}
OneBot == {1}
Gone == {9}
OneChat == {forum}
OneSlave == {slave}
TwoRows == 1 .. 2

(* A message of a slave chat; a media edit, which only the author of the      *)
(* message can make; and an edit, for no slave chat, by a bot that is gone.   *)
Message == [chat |-> forum, slave |-> slave, required |-> anyone, kind |-> "eventual"]
Edit == [chat |-> forum, slave |-> slave, required |-> 1, kind |-> "mediaEdit"]
EditOfGone == [chat |-> forum, slave |-> none, required |-> 9, kind |-> "blocking"]

(* Edits in two bots' messages.                                               *)
EditOf(b) == [chat |-> forum, slave |-> slave, required |-> b, kind |-> "blocking"]

TwoBotCalls == {EditOf(1), EditOf(2)}
MixedCalls == {Message, Edit, EditOfGone}
==============================================================================
