----------------------------- MODULE PayloadStore -----------------------------
(* What a row of the outbound queue weighs and which files it owns: the       *)
(* payload side of efb_telegram_master/outbound.py, class OutboundQueue.      *)
(* Media live in sidecar files next to the SQLite table; the table holds      *)
(* their names.  Rows of version 1, which an older release wrote, hold their  *)
(* media inline instead and are rewritten when they are first dispatched.     *)
(*                                                                            *)
(* Files and table have no common transaction, so `draft' and `trash' show    *)
(* what lies between the two: files written for a row that is not committed   *)
(* yet, and files of a committed removal that are not unlinked yet.           *)
EXTENDS Naturals, FiniteSets, FiniteSetsExt

CONSTANTS
    MaxRows,     \* bound: rows one behaviour may ever insert
    Chats,       \* destinations
    Names,       \* names mkstemp may give
    Budget       \* MAX_REPLAY_BYTES, in units that sizes are multiples of

ASSUME BudgetAssumption ==
    /\ Budget \in Nat \ {0} /\ MaxRows \in Nat
    /\ Chats # {} /\ IsFiniteSet(Names)

Ids == 1 .. MaxRows
Sizes == 0 .. 2 * Budget

VARIABLES
    rows,        \* the table: [Ids -> Row]
    files,       \* names present in outbound-media/
    draft,       \* files of the transaction under way, see NoDraft
    trash,       \* files of removed rows, still to be unlinked
    swept        \* whether the last start removed the orphans

store == <<rows, files, draft, trash, swept>>

(* Versions: 1 inline media, 2 sidecars, 0 a marker this release ignores.     *)
Row == [st     : {"absent", "queued", "sent_pending", "removed"},
        chat   : Chats,
        prio   : {0, 1},
        kept   : BOOLEAN,      \* stays in the table while the call is made
        ver    : 0 .. 2,
        opaque : Sizes,        \* pickled bytes other than inline media
        inline : Sizes,        \* BytesIO content inside the pickle
        meta   : Sizes,        \* log_context and completion_receipt
        media  : SUBSET Names,
        held   : BOOLEAN]      \* delivery_hold IS NOT NULL

NoDraft == [row |-> 0, new |-> {}]

NoRow == [st |-> "absent", chat |-> CHOOSE ch \in Chats : TRUE, prio |-> 0, kept |-> TRUE,
          ver |-> 2, opaque |-> 0, inline |-> 0, meta |-> 0, media |-> {}, held |-> FALSE]

StoreTypeOK ==
    /\ rows \in [Ids -> Row]
    /\ files \subseteq Names /\ trash \subseteq Names
    /\ draft \in [row : 0 .. MaxRows, new : SUBSET Names]
    /\ swept \in BOOLEAN

InTable(i) == rows[i].st \in {"queued", "sent_pending"}
Queued(i) == rows[i].st = "queued"
Referenced == UNION {rows[i].media : i \in {j \in Ids : InTable(j)}}

------------------------------------------------------------------------------
(* Sizes.                                                                     *)

StoredSize(row) == row.opaque + row.inline + row.meta
Fits(size) == size <= Budget                       \* check_replay_size
Oversized(i) == ~Fits(StoredSize(rows[i]))

(* What a row weighs once its inline media are sidecars.  The converter keeps *)
(* only the rest in memory, and that rest must fit together with the context  *)
(* and receipt.                                                               *)
Streamable(row) == row.ver = 1 /\ Fits(row.opaque + row.meta)
Compacted(row, new, grown) ==
    [row EXCEPT !.ver = 2, !.inline = 0, !.media = new, !.opaque = @ + grown]

------------------------------------------------------------------------------
(* Writing: files first, then the row that names them, in one transaction     *)
(* under the lock of the queue.                                               *)

Unwritten == draft = NoDraft
NextId(i) == rows[i].st = "absent" /\ \A j \in Ids : j < i => rows[j].st # "absent"

(* mkstemp: any names that are not taken.                                     *)
Unused == Names \ (files \union Referenced)
StoreMediaStream(i, n) ==
    LET new == CHOOSE S \in SUBSET Unused : Cardinality(S) = n
    IN  /\ Unwritten
        /\ Cardinality(Unused) >= n
        /\ files' = files \union new
        /\ draft' = [row |-> i, new |-> new]
        /\ UNCHANGED <<rows, trash, swept>>

CommitDraft(row) ==
    /\ rows' = [rows EXCEPT ![draft.row] = row]
    /\ draft' = NoDraft
    /\ UNCHANGED <<files, trash, swept>>

(* Mutant: the files of a failed transaction are forgotten.                   *)
RollBackRowOnly == draft' = NoDraft /\ UNCHANGED <<rows, files, trash, swept>>
CleanupCreatedMedia ==
    /\ files' = files \ draft.new
    /\ draft' = NoDraft
    /\ UNCHANGED <<rows, trash, swept>>

(* Prepare a request of a caller and commit it.                               *)
Prepare(i, c) == NextId(i) /\ StoreMediaStream(i, c.files)

FreshRow(c) == [NoRow EXCEPT !.st = "queued", !.chat = c.chat, !.prio = c.prio, !.kept = c.kept,
                             !.opaque = c.opaque, !.meta = c.meta, !.media = draft.new]
EnqueueMany(c) == /\ Cardinality(draft.new) = c.files
                  /\ CommitDraft(FreshRow(c))

(* Rewriting a version 1 row: its media become files, then its payload is     *)
(* replaced.  What does not fit makes the converter raise half way; what does *)
(* is encoded anew and may grow a little.                                     *)
StreamLegacyPickle(i) ==
    /\ rows[i].ver = 1
    /\ StoreMediaStream(i, IF rows[i].inline > 0 THEN 1 ELSE 0)

Growth == {0, 1}
RecoverLegacyMediaPayload(i) ==
    /\ draft.row = i
    /\ Streamable(rows[i])
    /\ \E grown \in Growth : CommitDraft(Compacted(rows[i], draft.new, grown))

------------------------------------------------------------------------------
(* Removing: the row first, then its files.                                   *)

Delete(i) ==
    /\ rows' = [rows EXCEPT ![i].st = "removed"]
    /\ trash' = trash \union rows[i].media
    /\ UNCHANGED <<files, draft, swept>>

(* delete(cleanup_media=False): the call still needs the files.               *)
DeleteKeepingMedia(i) ==
    /\ rows' = [rows EXCEPT ![i].st = "removed"]
    /\ UNCHANGED <<files, draft, trash, swept>>

(* The files of a call whose row is gone already.                             *)
CleanupPayloadMedia(S) ==
    /\ trash' = trash \union UNION {rows[i].media : i \in S}
    /\ UNCHANGED <<rows, files, draft, swept>>

Unlink ==
    /\ trash # {}
    /\ files' = files \ trash
    /\ trash' = {}
    /\ UNCHANGED <<rows, draft, swept>>

Hold(i, held) ==
    /\ rows' = [rows EXCEPT ![i].held = held]
    /\ UNCHANGED <<files, draft, trash, swept>>

------------------------------------------------------------------------------
(* Start: files no row names are removed, unless some row cannot be looked    *)
(* into.  Version 1 rows own no files.                                        *)

Inspectable(i) == \/ rows[i].ver = 1
                  \/ rows[i].ver = 2 /\ Fits(rows[i].opaque + rows[i].inline)
CanSweep == \A i \in Ids : InTable(i) => Inspectable(i)

Open ==
    LET inspected == {i \in Ids : InTable(i) /\ rows[i].ver = 2}
    IN  /\ swept' = CanSweep
        /\ files' = IF CanSweep THEN files \cap UNION {rows[i].media : i \in {j \in inspected : Inspectable(j)}}
                                ELSE files
        /\ draft' = NoDraft
        /\ trash' = {}
        /\ UNCHANGED rows
==============================================================================
