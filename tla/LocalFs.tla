------------------------------- MODULE LocalFs -------------------------------
(***************************************************************************)
(* Content-addressed storage, store_file_stream of                         *)
(* crates/frappe-storage/src/local_fs.rs: an upload is streamed into a     *)
(* temporary file while it is hashed, and renamed to its hash.             *)
(*                                                                         *)
(* A file's content is the sequence of chunks written to it.  SHA-256 is   *)
(* taken to have no collisions, so a content is its own hash.  tokio's     *)
(* File writes in the background: a failed write is reported by the next   *)
(* operation on the file.                                                  *)
(***************************************************************************)
EXTENDS Naturals, Sequences

CONSTANTS
  Uploads,         \* calls of store_file_stream
  Tenants,         \* tenant ids that the path check accepts
  Chunks,
  MaxChunks,       \* bound of the models: chunks in a stream
  RemoveMayFail,   \* whether remove_file may fail (its result is ignored)
  NoFile

Contents == UNION {[1..n -> Chunks] : n \in 0..MaxChunks}

ASSUME LocalFsAssumption ==
  /\ MaxChunks \in Nat
  /\ NoFile \notin Seq(Chunks)

VARIABLES
  tenant,   \* tenant[u]: the tenant_id upload u was called with
  pc,       \* pc[u]: where it is, or how it ended
  hashed,   \* hashed[u]: the chunks the hasher has seen
  broken,   \* broken[u]: a background write failed, not yet reported
  temp,     \* temp[p]: content of the temporary file with path p
  files     \* files[t][h]: content of <tenant t>/public/files/<h>

vars == <<tenant, pc, hashed, broken, temp, files>>

Ended == {"ok", "err", "dropped"}

\* tmp/upload_<uuid>.tmp
TempPath(u) == u

Paths == {TempPath(u) : u \in Uploads}

Init ==
  /\ tenant \in [Uploads -> Tenants]
  /\ pc = [u \in Uploads |-> "open"]
  /\ hashed = [u \in Uploads |-> << >>]
  /\ broken = [u \in Uploads |-> FALSE]
  /\ temp = [p \in Paths |-> NoFile]
  /\ files = [t \in Tenants |-> [h \in Contents |-> NoFile]]

Goto(u, label) == pc' = [pc EXCEPT ![u] = label]

-----------------------------------------------------------------------------
\* Directories and temporary file; any of the calls may fail.
Open(u) ==
  /\ pc[u] = "open"
  /\ \/ temp' = [temp EXCEPT ![TempPath(u)] = << >>] /\ Goto(u, "stream")
     \/ UNCHANGED temp /\ Goto(u, "err")
  /\ UNCHANGED <<tenant, hashed, broken, files>>

\* hasher.update(&chunk); file.write_all(&chunk)
NextChunk(u) ==
  /\ pc[u] = "stream"
  /\ Len(hashed[u]) < MaxChunks
  /\ \E c \in Chunks :
       /\ hashed' = [hashed EXCEPT ![u] = Append(@, c)]
       /\ \/ /\ broken[u]
             /\ Goto(u, "cleanup")
             /\ UNCHANGED <<broken, temp>>
          \/ /\ ~broken[u]
             /\ temp' = [temp EXCEPT ![TempPath(u)] = Append(@, c)]
             /\ UNCHANGED <<pc, broken>>
          \/ /\ ~broken[u]
             /\ broken' = [broken EXCEPT ![u] = TRUE]
             /\ UNCHANGED <<pc, temp>>
  /\ UNCHANGED <<tenant, files>>

StreamFails(u) ==
  /\ pc[u] = "stream"
  /\ Goto(u, "cleanup")
  /\ UNCHANGED <<tenant, hashed, broken, temp, files>>

\* Mutant of Flush: the file is dropped without a flush.
FlushOmitted(u) ==
  /\ pc[u] = "stream"
  /\ Goto(u, "target")
  /\ UNCHANGED <<tenant, hashed, broken, temp, files>>

\* The stream has ended: file.flush().await?
Flush(u) ==
  /\ pc[u] = "stream"
  /\ \/ ~broken[u] /\ Goto(u, "target")
     \/ Goto(u, "err")
  /\ UNCHANGED <<tenant, hashed, broken, temp, files>>

\* create_dir_all and canonicalize of the target (?), boundary check (cleanup).
Target(u) ==
  /\ pc[u] = "target"
  /\ Goto(u, "rename") \/ Goto(u, "err") \/ Goto(u, "cleanup")
  /\ UNCHANGED <<tenant, hashed, broken, temp, files>>

\* Mutant of Move: the files of the tenants share one directory.
MoveShared(u) ==
  /\ files' = [t \in Tenants |-> [files[t] EXCEPT ![hashed[u]] = temp[TempPath(u)]]]
  /\ temp' = [temp EXCEPT ![TempPath(u)] = NoFile]

\* The temporary file becomes <tenant>/public/files/<hash>.
Move(u) ==
  /\ files' = [files EXCEPT ![tenant[u]][hashed[u]] = temp[TempPath(u)]]
  /\ temp' = [temp EXCEPT ![TempPath(u)] = NoFile]

\* Mutant of Rename: a failed rename is not reported.
RenameIgnored(u) ==
  /\ pc[u] = "rename"
  /\ Move(u) \/ UNCHANGED <<temp, files>>
  /\ Goto(u, "ok")
  /\ UNCHANGED <<tenant, hashed, broken>>

Rename(u) ==
  /\ pc[u] = "rename"
  /\ \/ Move(u) /\ Goto(u, "ok")
     \/ Goto(u, "cleanup") /\ UNCHANGED <<temp, files>>
  /\ UNCHANGED <<tenant, hashed, broken>>

\* let _ = remove_file(&temp_file_path).await; return Err(...)
Cleanup(u) ==
  /\ pc[u] = "cleanup"
  /\ Goto(u, "err")
  /\ \/ temp' = [temp EXCEPT ![TempPath(u)] = NoFile]
     \/ RemoveMayFail /\ UNCHANGED temp
  /\ UNCHANGED <<tenant, hashed, broken, files>>

\* The process dies, or the caller drops the future: a rename or a removal
\* that has been handed to the blocking pool may still happen.
Dropped(u) ==
  /\ pc[u] \notin Ended
  /\ Goto(u, "dropped")
  /\ \/ UNCHANGED <<temp, files>>
     \/ pc[u] = "rename" /\ Move(u)
     \/ /\ pc[u] = "cleanup"
        /\ temp' = [temp EXCEPT ![TempPath(u)] = NoFile]
        /\ UNCHANGED files
  /\ UNCHANGED <<tenant, hashed, broken>>

Step(u) ==
  \/ Open(u) \/ NextChunk(u) \/ StreamFails(u) \/ Flush(u) \/ Target(u)
  \/ Rename(u) \/ Cleanup(u) \/ Dropped(u)

Next == \E u \in Uploads : Step(u)

Spec == Init /\ [][Next]_vars

-----------------------------------------------------------------------------
TypeOK ==
  /\ tenant \in [Uploads -> Tenants]
  /\ pc \in [Uploads -> {"open", "stream", "target", "rename", "cleanup"} \cup Ended]
  /\ hashed \in [Uploads -> Contents]
  /\ broken \in [Uploads -> BOOLEAN]
  /\ temp \in [Paths -> Contents \cup {NoFile}]
  /\ files \in [Tenants -> [Contents -> Contents \cup {NoFile}]]
  /\ \A u \in Uploads : pc[u] \in {"open", "ok"} => temp[TempPath(u)] = NoFile

(***************************************************************************)
(* A stored file contains what it is named after: no torn or short file    *)
(* becomes visible, whatever writes fail and wherever uploads are dropped. *)
(***************************************************************************)
ContentAddressed ==
  \A t \in Tenants, h \in Contents : files[t][h] \in {NoFile, h}

(***************************************************************************)
(* An acknowledged upload is stored for its tenant and stays stored,       *)
(* whatever uploads of the same content do at the same time.               *)
(***************************************************************************)
Acknowledged ==
  \A u \in Uploads : pc[u] = "ok" => files[tenant[u]][hashed[u]] = hashed[u]

(***************************************************************************)
(* A tenant has only files that an upload of that tenant completed; one    *)
(* that reported an error has stored nothing.                              *)
(***************************************************************************)
OnlyUploaded ==
  \A t \in Tenants, h \in Contents : files[t][h] # NoFile =>
    \E u \in Uploads :
      tenant[u] = t /\ hashed[u] = h /\ pc[u] \in {"ok", "dropped"}
=============================================================================
