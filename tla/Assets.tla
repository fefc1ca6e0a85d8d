------------------------------ MODULE Assets ------------------------------
(***************************************************************************)
(* AssetService and the content-addressed stores (src/sip/assets.py), for  *)
(* the references to one content object: API threads and workers that      *)
(* ingest the same bytes, tombstone references to them, and upload them in *)
(* parts.  Objects of different digests share nothing, so one digest is    *)
(* modelled.                                                               *)
(*                                                                         *)
(* Every encryption draws its own data key, so a ciphertext can only be    *)
(* read with the envelope written with it: both are modelled by the number *)
(* of the encryption they come from, 0 for a missing file.  The local      *)
(* store keeps them in two files that are replaced and unlinked one after  *)
(* the other; the S3 store keeps them in one object, written only if none  *)
(* is there.  A session that reads and later commits is two steps where    *)
(* other steps may come between to any effect.                             *)
(***************************************************************************)
EXTENDS Naturals, FiniteSets, FiniteSetsExt

CONSTANTS Processes,       \* API threads and workers
          Assets,          \* asset ids
          Backends,        \* of {"local", "s3"}
          Parts,           \* part numbers of the multipart upload, 1 .. n
          MaxEncryptions,  \* bound on the encryptions performed
          MaxCrashes       \* bound on the calls that die half-way

ASSUME AssetsAssumption ==
    /\ Backends \subseteq {"local", "s3"}
    /\ MaxEncryptions \in Nat
    /\ MaxCrashes \in Nat

VARIABLES backend,   \* the store the deployment is configured with
          enc,       \* encryption of the stored ciphertext
          meta,      \* encryption of the stored envelope metadata
          refs,      \* asset_refs: state of each asset
          held,      \* asset_refs: those whose legal_hold is set
          upload,    \* the multipart upload: its state, rows and files
          drawn,     \* encryptions so far
          pc,        \* what each process does next
          call,      \* the locals of its call
          crashes,   \* calls that died
          history    \* calls that overlapped, were refused or delivered

vars == <<backend, enc, meta, refs, held, upload, drawn, pc, call, crashes, history>>

store == <<enc, meta>>

Ingesting == {"write", "replace", "describe", "put", "read", "decrypt",
              "register"}
Completing == {"complete", "cleanup"}
Erasing == {"tombstone", "unlink", "unlink_meta"}
PCs == Ingesting \cup Completing \cup Erasing \cup {"idle", "add_part"}

NoCall == [asset |-> "none", encryption |-> 0, multipart |-> FALSE, part |-> 0,
           others |-> 0]

Init ==
    /\ backend \in Backends
    /\ enc = 0
    /\ meta = 0
    /\ refs = [a \in Assets |-> "absent"]
    /\ held = {}
    /\ upload = [state |-> "open", rows |-> {}, files |-> {}, directory |-> TRUE]
    /\ drawn = 0
    /\ pc = [p \in Processes |-> "idle"]
    /\ call = [p \in Processes |-> NoCall]
    /\ crashes = 0
    /\ history = {}

(* The processes, other than p, that are between two steps of a kind.      *)
Others(p, labels) == {q \in Processes \ {p} : pc[q] \in labels}

Goto(p, label) == pc' = [pc EXCEPT ![p] = label]

(* The call returns or raises.                                             *)
Leave(p) == Goto(p, "idle") /\ call' = [call EXCEPT ![p] = NoCall]

(* A call of process p begins; remember what it overlaps with.             *)
Begin(p, label, locals, kinds) ==
    /\ pc[p] = "idle"
    /\ Goto(p, label)
    /\ call' = [call EXCEPT ![p] = locals]
    /\ history' = history \cup kinds
-----------------------------------------------------------------------------
IngestOverlaps(p) ==
    (IF Others(p, Ingesting) # {} THEN {"writers"} ELSE {})
    \cup (IF Others(p, Erasing) # {} THEN {"erasure"} ELSE {})

(* The uuids drawn by the multipart calls under way.                       *)
Drawn == {call[q].asset : q \in {r \in Processes : call[r].multipart}}

(* ingest_bytes is called with a fresh asset id or with one a worker       *)
(* derives from its operation, which another attempt may have used.        *)
ingest_bytes(p, a) ==
    /\ a \notin Drawn
    /\ Begin(p, "write", [NoCall EXCEPT !.asset = a], IngestOverlaps(p))
    /\ UNCHANGED <<backend, held, store, refs, upload, drawn, crashes>>

(* The lookup that write_bytes begins with.  Bytes that are already stored *)
(* are read, which the verification after the write does again: one read   *)
(* stands for both.  Otherwise they are encrypted.                         *)
write_bytes(p) ==
    /\ pc[p] = "write"
    /\ IF enc # 0 /\ meta # 0
       THEN Goto(p, "read") /\ UNCHANGED <<drawn, call>>
       ELSE /\ drawn < MaxEncryptions
            /\ drawn' = drawn + 1
            /\ call' = [call EXCEPT ![p].encryption = drawn + 1]
            /\ Goto(p, IF backend = "s3" THEN "put" ELSE "replace")
    /\ UNCHANGED <<backend, held, store, refs, upload, crashes, history>>

(* os.replace(temp_name, destination)                                      *)
replace_ciphertext(p) ==
    /\ pc[p] = "replace"
    /\ enc' = call[p].encryption
    /\ Goto(p, "describe")
    /\ UNCHANGED <<backend, held, meta, refs, upload, drawn, call, crashes, history>>

(* os.replace(metadata_temp_name, metadata_path)                           *)
replace_metadata(p) ==
    /\ pc[p] = "describe"
    /\ meta' = call[p].encryption
    /\ Goto(p, "read")
    /\ UNCHANGED <<backend, held, enc, refs, upload, drawn, call, crashes, history>>

(* Deviation: the body is written whatever is there, then the envelope.    *)
put_object_twice(p) ==
    /\ pc[p] = "put"
    /\ enc' = call[p].encryption
    /\ Goto(p, "describe")
    /\ UNCHANGED <<backend, held, meta, refs, upload, drawn, call, crashes, history>>

(* put_object with IfNoneMatch: a concurrent writer that was first wins,   *)
(* and its object is read instead.                                         *)
put_object(p) ==
    /\ pc[p] = "put"
    /\ IF enc = 0
       THEN enc' = call[p].encryption /\ meta' = call[p].encryption
       ELSE UNCHANGED store
    /\ Goto(p, "read")
    /\ UNCHANGED <<backend, held, refs, upload, drawn, call, crashes, history>>

(* read_bytes: both files must exist; the metadata is read first.          *)
read_metadata(p) ==
    /\ pc[p] = "read"
    /\ IF enc = 0 \/ meta = 0 THEN Leave(p)
       ELSE /\ call' = [call EXCEPT ![p].encryption = meta]
            /\ Goto(p, IF backend = "s3" THEN "register" ELSE "decrypt")
    /\ UNCHANGED <<backend, held, store, refs, upload, drawn, crashes, history>>

(* The ciphertext is read and decrypted under the metadata read before.    *)
read_ciphertext(p) ==
    /\ pc[p] = "decrypt"
    /\ IF enc = call[p].encryption
       THEN Goto(p, "register") /\ UNCHANGED call
       ELSE Leave(p)
    /\ UNCHANGED <<backend, held, store, refs, upload, drawn, crashes, history>>

(* The transaction of ingest_bytes; an asset id that is already bound is   *)
(* returned, or refused when it was tombstoned.                            *)
register(p) ==
    LET a == call[p].asset
    IN  /\ pc[p] = "register"
        /\ refs' = [refs EXCEPT ![a] = IF @ = "absent" THEN "active" ELSE @]
        /\ history' = history
               \cup (IF refs[a] = "tombstoned" THEN {"refused"} ELSE {})
               \cup (IF call[p].multipart THEN {"delivered"} ELSE {})
        /\ IF call[p].multipart
           THEN Goto(p, "complete") /\ UNCHANGED call
           ELSE Leave(p)
        /\ UNCHANGED <<backend, store, held, upload, drawn, crashes>>
-----------------------------------------------------------------------------
(* The legal_hold column as LifecycleService sets and clears it.           *)
set_legal_hold(a, hold) ==
    /\ refs[a] # "absent"
    /\ held' = IF hold THEN held \cup {a} ELSE held \ {a}
    /\ UNCHANGED <<backend, store, refs, upload, drawn, pc, call, crashes, history>>

(* Deviation: tombstoned references are counted too.                       *)
tombstone_counting_all(p, a) ==
    /\ refs[a] # "absent"
    /\ a \notin held
    /\ Begin(p, "tombstone",
             [NoCall EXCEPT !.asset = a,
                 !.others = Cardinality({b \in Assets \ {a} : refs[b] # "absent"})],
             IF Others(p, Ingesting \cup Erasing) # {} THEN {"erasure"} ELSE {})
    /\ UNCHANGED <<backend, held, store, refs, upload, drawn, crashes>>

(* tombstone: the transaction counts the other active references ...       *)
tombstone(p, a) ==
    /\ refs[a] # "absent"
    /\ a \notin held
    /\ Begin(p, "tombstone",
             [NoCall EXCEPT !.asset = a,
                 !.others = Cardinality({b \in Assets \ {a} : refs[b] = "active"})],
             IF Others(p, Ingesting \cup Erasing) # {} THEN {"erasure"} ELSE {})
    /\ UNCHANGED <<backend, held, store, refs, upload, drawn, crashes>>

(* Deviation: the object is removed whatever the count.                    *)
commit_tombstone_always(p) ==
    /\ pc[p] = "tombstone"
    /\ refs' = [refs EXCEPT ![call[p].asset] = "tombstoned"]
    /\ Goto(p, "unlink")
    /\ UNCHANGED <<backend, held, store, upload, drawn, call, crashes, history>>

(* ... and commits; the object is removed after the commit if it counted   *)
(* none.                                                                   *)
commit_tombstone(p) ==
    /\ pc[p] = "tombstone"
    /\ refs' = [refs EXCEPT ![call[p].asset] = "tombstoned"]
    /\ IF call[p].others = 0 THEN Goto(p, "unlink") /\ UNCHANGED call ELSE Leave(p)
    /\ UNCHANGED <<backend, held, store, upload, drawn, crashes, history>>

(* Deviation: delete() forgets the metadata file.                          *)
delete_ciphertext_only(p) ==
    /\ pc[p] = "unlink"
    /\ enc' = 0
    /\ Leave(p)
    /\ UNCHANGED <<backend, held, meta, refs, upload, drawn, crashes, history>>

delete_ciphertext(p) ==
    /\ pc[p] = "unlink"
    /\ enc' = 0
    /\ IF backend = "s3" THEN meta' = 0 /\ Leave(p)
       ELSE Goto(p, "unlink_meta") /\ UNCHANGED <<meta, call>>
    /\ UNCHANGED <<backend, held, refs, upload, drawn, crashes, history>>

delete_metadata(p) ==
    /\ pc[p] = "unlink_meta"
    /\ meta' = 0
    /\ Leave(p)
    /\ UNCHANGED <<backend, held, enc, refs, upload, drawn, crashes, history>>
-----------------------------------------------------------------------------
(* Deviation: the file of the next part is written.                        *)
put_part_shifted(p, n) ==
    /\ upload.directory
    /\ upload.state = "open"
    /\ n \notin upload.rows
    /\ Begin(p, "add_part", [NoCall EXCEPT !.part = n], {})
    /\ upload' = [upload EXCEPT !.files = @ \cup {n + 1}]
    /\ UNCHANGED <<backend, held, store, refs, drawn, crashes>>

(* put_part: a part that has a row must still have its file; otherwise the *)
(* file is written inside the session ...                                  *)
put_part(p, n) ==
    /\ upload.directory
    /\ upload.state = "open"
    /\ n \notin upload.rows
    /\ Begin(p, "add_part", [NoCall EXCEPT !.part = n], {})
    /\ upload' = [upload EXCEPT !.files = @ \cup {n}]
    /\ UNCHANGED <<backend, held, store, refs, drawn, crashes>>

(* ... and its row committed; uq_upload_part refuses a second one.         *)
commit_part(p) ==
    /\ pc[p] = "add_part"
    /\ upload' = [upload EXCEPT !.rows = @ \cup {call[p].part}]
    /\ Leave(p)
    /\ UNCHANGED <<backend, held, store, refs, drawn, crashes, history>>

(* Deviation: the parts are removed once they have been read.              *)
complete_multipart_eager(p, a) ==
    /\ upload.state = "open"
    /\ upload.rows = Parts
    /\ Parts \subseteq upload.files
    /\ refs[a] = "absent"
    /\ \A q \in Processes : call[q].asset # a
    /\ Begin(p, "write", [NoCall EXCEPT !.asset = a, !.multipart = TRUE],
             IngestOverlaps(p))
    /\ upload' = [upload EXCEPT !.files = {}, !.directory = FALSE]
    /\ UNCHANGED <<backend, held, store, refs, drawn, crashes>>

(* complete_multipart: the rows must be contiguous from one, their files   *)
(* readable and the joined bytes the expected ones, so none is missing.    *)
complete_multipart(p, a) ==
    /\ upload.state = "open"
    /\ upload.rows = Parts
    /\ Parts \subseteq upload.files
    /\ refs[a] = "absent"
    /\ \A q \in Processes : call[q].asset # a
    /\ Begin(p, "write", [NoCall EXCEPT !.asset = a, !.multipart = TRUE],
             IngestOverlaps(p))
    /\ UNCHANGED <<backend, held, store, refs, upload, drawn, crashes>>

mark_completed(p) ==
    /\ pc[p] = "complete"
    /\ upload' = [upload EXCEPT !.state = "completed"]
    /\ Goto(p, "cleanup")
    /\ UNCHANGED <<backend, held, store, refs, drawn, call, crashes, history>>

remove_parts(p) ==
    /\ pc[p] = "cleanup"
    /\ upload' = [upload EXCEPT !.files = {}, !.directory = FALSE]
    /\ Leave(p)
    /\ UNCHANGED <<backend, held, store, refs, drawn, crashes, history>>
-----------------------------------------------------------------------------
(* The process dies, or a storage or database call fails, between two      *)
(* steps: nothing of what was done is undone.                              *)
crash(p) ==
    /\ pc[p] # "idle"
    /\ crashes < MaxCrashes
    /\ crashes' = crashes + 1
    /\ Leave(p)
    /\ UNCHANGED <<backend, held, store, refs, upload, drawn, history>>

step(p) ==
    \/ write_bytes(p) \/ replace_ciphertext(p) \/ replace_metadata(p)
    \/ put_object(p) \/ read_metadata(p) \/ read_ciphertext(p) \/ register(p)
    \/ commit_tombstone(p) \/ delete_ciphertext(p) \/ delete_metadata(p)
    \/ commit_part(p) \/ mark_completed(p) \/ remove_parts(p)

Next ==
    \/ \E a \in Assets, hold \in BOOLEAN : set_legal_hold(a, hold)
    \/ \E p \in Processes :
        \/ \E a \in Assets : \/ ingest_bytes(p, a)
                             \/ tombstone(p, a)
                             \/ complete_multipart(p, a)
        \/ \E n \in Parts : put_part(p, n)
        \/ step(p)
        \/ crash(p)

Spec == Init /\ [][Next]_vars
-----------------------------------------------------------------------------
TypeOK ==
    /\ backend \in Backends
    /\ {enc, meta} \subseteq 0 .. drawn
    /\ refs \in [Assets -> {"absent", "active", "tombstoned"}]
    /\ upload.rows \cup upload.files \subseteq Parts
    /\ drawn \in 0 .. MaxEncryptions
    /\ pc \in [Processes -> PCs]
    /\ \A p \in Processes : pc[p] = "idle" => call[p] = NoCall
    /\ crashes \in 0 .. MaxCrashes

Serial == history \cap {"writers", "erasure"} = {}

Quiet == \A p \in Processes : pc[p] = "idle"

Active == \E a \in Assets : refs[a] = "active"

Readable == enc # 0 /\ enc = meta

(***************************************************************************)
(* An active reference has readable bytes whenever no call is under way,   *)
(* if the calls on the object did not overlap: ingests, deduplications,    *)
(* erasures and new ingests may follow each other in any order and one of  *)
(* them may die at any step, between two files, two stores or the commit.  *)
(***************************************************************************)
ReferencedIsReadable == Quiet /\ Serial /\ Active => Readable

(***************************************************************************)
(* The S3 store is safe for concurrent writers too: only an erasure that   *)
(* overlaps an ingest can take the bytes from an active reference.         *)
(***************************************************************************)
S3WritersAreSafe ==
    backend = "s3" /\ "erasure" \notin history /\ Active => Readable

(***************************************************************************)
(* A digest is never wedged: if calls do not overlap, no crash leaves a    *)
(* ciphertext beside the envelope of another one, which every later        *)
(* write_bytes of the same content would find, fail to read and keep.      *)
(***************************************************************************)
NeverWedged == Quiet /\ Serial => enc = 0 \/ meta = 0 \/ enc = meta

(***************************************************************************)
(* Erasure is complete: after the last reference is tombstoned nothing of  *)
(* the object is left, if no call died or overlapped and no ingest was     *)
(* refused after it had stored its bytes.                                  *)
(***************************************************************************)
ErasureIsComplete ==
    /\ Quiet
    /\ Serial
    /\ "refused" \notin history
    /\ crashes = 0
    /\ ~ Active
    /\ \E a \in Assets : refs[a] = "tombstoned"
    => enc = 0 /\ meta = 0

(***************************************************************************)
(* Uploaded bytes are not lost: whatever dies or overlaps, the parts a     *)
(* client was told are verified are still on disk, or the asset was        *)
(* registered.                                                             *)
(***************************************************************************)
UploadIsKept ==
    upload.rows \subseteq upload.files \/ "delivered" \in history
-----------------------------------------------------------------------------
(***************************************************************************)
(* What is read back before a reference becomes visible is immutable: an   *)
(* active reference keeps readable bytes although others store the same    *)
(* content.  Refuted by a run of its own for the local store.              *)
(***************************************************************************)
VerifiedStaysReadable == Quiet /\ "erasure" \notin history /\ Active => Readable
=============================================================================
