------------------------------ MODULE MCDelivery -----------------------------
(* Instances of OutboundScheduler for TLC: one group that may become a        *)
(* supergroup, and one request of each kind that the scheduler treats         *)
(* differently.                                                               *)
EXTENDS OutboundInvariant
CONSTANTS group, super

MCChats == {group, super}
MCSupergroup == [ch \in {group} |-> super]

Request(op, prio, log, long, origin) ==
    [op |-> op, prio |-> prio, log |-> log, long |-> long, origin |-> origin]

LoggedSend == Request("send_message", 0, TRUE, FALSE, "live")
LongEdit == Request("edit_message_text", 1, TRUE, TRUE, "live")
MediaEdit == Request("edit_message_media", 1, FALSE, FALSE, "live")
HistoryCopy == Request("copy_message", 0, FALSE, FALSE, "history")

MCCalls == {LoggedSend, LongEdit, MediaEdit, HistoryCopy}

(* Progress and order: what can overtake or hold up a row.  A long edit is    *)
(* waited for, has a receipt to settle and a supplement that joins the queue  *)
(* later; a media edit is kept in memory when it meets the rate limit; copies *)
(* of the history are eventual and can be put off, refused or retried.        *)
ProgressCalls == {LongEdit, MediaEdit, HistoryCopy}
NoSupergroup == [ch \in {} |-> ch]
==============================================================================
