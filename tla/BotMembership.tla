----------------------------- MODULE BotMembership ----------------------------
(* What the process knows of its auxiliary bots' membership in Telegram chats *)
(* (auxiliary_bot.py): a cache filled by service messages ("joined", "left"), *)
(* which the main bot receives in order, and by probes, which ask Telegram    *)
(* from threads of their own.  A probe may answer late: it carries the        *)
(* generation of the cache it started from, and each service message starts a *)
(* new generation.                                                            *)
(*                                                                            *)
(* The actions leave out the reaction to a change (_membership_changed), which*)
(* SenderSelection adds; the operator Learns says which fact a step brings.   *)
EXTENDS Naturals, Sequences

CONSTANTS
    Auxiliaries,   \* ids of the auxiliary bots of the pool
    Chats          \* Telegram chats

Pairs == Auxiliaries \X Chats

VARIABLES
    member,        \* Telegram's truth: is the bot in the chat
    notices,       \* service messages about the bot not handled yet, oldest first
    known,         \* _membership_cache; "unknown" is no entry, or one that is too old
    generation,    \* _membership_generation
    probe          \* the thread of _pending_probes

membership == <<member, notices, known, generation, probe>>

Known == {"member", "absent", "unknown"}
Fact(isMember) == IF isMember THEN "member" ELSE "absent"

(* A probe in "answered" has Telegram's answer in hand; in "ended" it has     *)
(* used it, or given up, and is still listed as pending.                      *)
Probe == [at : {"none", "asking", "answered", "ended"}, gen : Nat, saw : BOOLEAN]
NoProbe == [at |-> "none", gen |-> 0, saw |-> FALSE]

MembershipTypeOK ==
    /\ member \in [Pairs -> BOOLEAN]
    /\ notices \in [Pairs -> Seq(BOOLEAN)]
    /\ known \in [Pairs -> Known]
    /\ generation \in [Pairs -> Nat]
    /\ probe \in [Pairs -> Probe]

(* The process starts with an empty cache and without threads; Telegram may   *)
(* have a service message from before for it.                                 *)
MembershipInit ==
    /\ member \in [Pairs -> BOOLEAN]
    /\ notices \in {n \in [Pairs -> {<<>>, <<TRUE>>, <<FALSE>>}] :
                       \A p \in Pairs : n[p] # <<>> => n[p][1] = member[p]}
    /\ known = [p \in Pairs |-> "unknown"]
    /\ generation = [p \in Pairs |-> 0]
    /\ probe = [p \in Pairs |-> NoProbe]

------------------------------------------------------------------------------
(* A person adds the bot to the chat or removes it.                           *)
Moves(p) ==
    /\ member' = [member EXCEPT ![p] = ~ @]
    /\ notices' = [notices EXCEPT ![p] = Append(@, ~ member[p])]
    /\ UNCHANGED <<known, generation, probe>>

(* on_bots_joined_chat and on_bot_left_chat, through update_membership.       *)
HandleNotice(p) ==
    /\ notices[p] # <<>>
    /\ notices' = [notices EXCEPT ![p] = Tail(@)]
    /\ generation' = [generation EXCEPT ![p] = @ + 1]
    /\ known' = [known EXCEPT ![p] = Fact(Head(notices[p]))]
    /\ UNCHANGED <<member, probe>>

(* check_membership_tri reads known[p]; when that is no answer, its caller    *)
(* sees to it that a probe is under way, holding the lock once more.          *)
StartProbe(p) ==
    /\ probe' = IF probe[p].at = "none"
                THEN [probe EXCEPT ![p] = [at |-> "asking", gen |-> generation[p], saw |-> FALSE]]
                ELSE probe
    /\ UNCHANGED <<member, notices, known, generation>>

(* Telegram answers get_chat_member (refusals mean: not a member) ...         *)
ProbeAnswered(p) ==
    /\ probe[p].at = "asking"
    /\ probe' = [probe EXCEPT ![p].at = "answered", ![p].saw = member[p]]
    /\ UNCHANGED <<member, notices, known, generation>>

(* ... or the call fails, which is logged and otherwise ignored.              *)
ProbeFails(p) ==
    /\ probe[p].at = "asking"
    /\ probe' = [probe EXCEPT ![p].at = "ended"]
    /\ UNCHANGED <<member, notices, known, generation>>

IsAnyGeneration(p) == TRUE         \* mutant: a late answer counts
IsCurrentGeneration(p) == probe[p].gen = generation[p]

(* _update_probed_membership.                                                 *)
UseAnswer(p) ==
    /\ probe[p].at = "answered"
    /\ known' = IF IsCurrentGeneration(p) THEN [known EXCEPT ![p] = Fact(probe[p].saw)] ELSE known
    /\ probe' = [probe EXCEPT ![p].at = "ended"]
    /\ UNCHANGED <<member, notices, generation>>

ProbeListedForEver(p) ==           \* mutant: the entry of a failed probe stays
    /\ probe[p].at = "ended" /\ known[p] # "unknown"
    /\ probe' = [probe EXCEPT ![p] = NoProbe]
    /\ UNCHANGED <<member, notices, known, generation>>

ProbeEnds(p) ==
    /\ probe[p].at = "ended"
    /\ probe' = [probe EXCEPT ![p] = NoProbe]
    /\ UNCHANGED <<member, notices, known, generation>>

(* An entry is older than its time to live.                                   *)
Expires(p) ==
    /\ known[p] # "unknown"
    /\ known' = [known EXCEPT ![p] = "unknown"]
    /\ UNCHANGED <<member, notices, generation, probe>>

(* What a step that writes the cache entry of p tells _membership_changed.    *)
NoticeSaysAbsent(p) == ~ Head(notices[p])
AnswerSaysAbsent(p) == IsCurrentGeneration(p) /\ ~ probe[p].saw

------------------------------------------------------------------------------
(* Once the service messages about a bot in a chat have been handled, what    *)
(* the cache says is true, however the probes and messages were interleaved.  *)
CacheIsCurrent ==
    \A p \in Pairs :
        notices[p] = <<>> /\ known[p] # "unknown" => known[p] = Fact(member[p])

(* What keeps it so: the newest service message tells the truth; a probe is   *)
(* of no later generation than the cache; and an answer that will be used is  *)
(* true unless a message is still to come.                                    *)
MembershipInv ==
    /\ \A p \in Pairs :
          /\ notices[p] # <<>> => notices[p][Len(notices[p])] = member[p]
          /\ probe[p].gen <= generation[p]
          /\ probe[p].at = "answered" /\ IsCurrentGeneration(p) /\ notices[p] = <<>>
                => probe[p].saw = member[p]
    /\ CacheIsCurrent
==============================================================================
