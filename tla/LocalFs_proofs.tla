--------------------------- MODULE LocalFs_proofs ---------------------------
(***************************************************************************)
(* Proofs about LocalFs: what is stored is what its name says, and what    *)
(* was acknowledged stays stored.                                          *)
(***************************************************************************)
EXTENDS LocalFs, SequenceTheorems, TLAPS

Types ==
  /\ tenant \in [Uploads -> Tenants]
  /\ pc \in [Uploads -> {"open", "stream", "target", "rename", "cleanup"} \cup Ended]
  /\ hashed \in [Uploads -> Contents]
  /\ broken \in [Uploads -> BOOLEAN]
  /\ temp \in [Uploads -> Contents \cup {NoFile}]
  /\ files \in [Tenants -> [Contents -> Contents \cup {NoFile}]]

\* The hasher has seen what the temporary file holds, unless a failed write
\* has not been reported, which Flush makes sure of before the rename.
HashIsOfTemp ==
  \A u \in Uploads :
    /\ pc[u] = "open" => hashed[u] = << >>
    /\ pc[u] = "stream" /\ ~broken[u] => temp[u] = hashed[u]
    /\ pc[u] \in {"target", "rename"} => temp[u] = hashed[u]

IInv == Types /\ HashIsOfTemp /\ ContentAddressed /\ Acknowledged

-----------------------------------------------------------------------------
LEMMA EmptyContent == << >> \in Contents
<1>1. << >> \in [1..0 -> Chunks]
  OBVIOUS
<1> QED
  BY <1>1, LocalFsAssumption DEF Contents

LEMMA LongerContent ==
  ASSUME NEW s \in Contents, NEW c \in Chunks, Len(s) < MaxChunks
  PROVE  Append(s, c) \in Contents
<1>1. PICK n \in 0..MaxChunks : s \in [1..n -> Chunks]
  BY DEF Contents
<1>2. s \in Seq(Chunks) /\ Len(s) = n
  BY <1>1, LocalFsAssumption
<1>3. Append(s, c) \in [1..(n + 1) -> Chunks]
  <2>1. Append(s, c) \in Seq(Chunks) /\ Len(Append(s, c)) = n + 1
    BY <1>2
  <2> QED
    BY <2>1, LenProperties
<1>4. n + 1 \in 0..MaxChunks
  BY <1>2, LocalFsAssumption
<1> QED
  BY <1>3, <1>4 DEF Contents

LEMMA NoFileIsNoContent == NoFile \notin Contents
<1>1. ASSUME NEW s \in Contents PROVE s \in Seq(Chunks)
  <2>1. PICK n \in 0..MaxChunks : s \in [1..n -> Chunks]
    BY DEF Contents
  <2> QED
    BY <2>1, LocalFsAssumption
<1> QED
  BY <1>1, LocalFsAssumption

-----------------------------------------------------------------------------
LEMMA InitIInv == Init => IInv
<1> SUFFICES ASSUME Init PROVE IInv
  OBVIOUS
<1>1. Types
  <2>1. temp = [p \in Uploads |-> NoFile]
    BY DEF Init, Paths, TempPath
  <2> QED
    BY <2>1, EmptyContent DEF Init, Types, Ended
<1>2. HashIsOfTemp
  BY DEF Init, HashIsOfTemp
<1>3. ContentAddressed /\ Acknowledged
  BY DEF Init, ContentAddressed, Acknowledged
<1> QED
  BY <1>1, <1>2, <1>3 DEF IInv

\* A rename that takes effect puts the right content at its name.
LEMMA MoveKeeps ==
  ASSUME IInv, NEW u \in Uploads, Move(u), pc[u] = "rename"
  PROVE  /\ temp' \in [Uploads -> Contents \cup {NoFile}]
         /\ files' \in [Tenants -> [Contents -> Contents \cup {NoFile}]]
         /\ \A v \in Uploads : v # u => temp'[v] = temp[v]
         /\ files'[tenant[u]][hashed[u]] = hashed[u]
         /\ \A t \in Tenants, h \in Contents :
              files'[t][h] = files[t][h] \/ (h = hashed[u] /\ files'[t][h] = h)
<1>1. temp[u] = hashed[u]
  BY DEF IInv, HashIsOfTemp
<1>2. tenant[u] \in Tenants /\ hashed[u] \in Contents
  BY DEF IInv, Types
<1>3. files' = [files EXCEPT ![tenant[u]][hashed[u]] = hashed[u]]
  BY <1>1 DEF Move, TempPath
<1>4. temp' = [temp EXCEPT ![u] = NoFile]
  BY DEF Move, TempPath
<1> QED
  BY <1>2, <1>3, <1>4 DEF IInv, Types

LEMMA NextIInv == IInv /\ [Next]_vars => IInv'
<1> SUFFICES ASSUME IInv, [Next]_vars PROVE IInv'
  OBVIOUS
<1> USE DEF TempPath, Paths, Goto, Ended
<1>1. CASE UNCHANGED vars
  <2>1. Types'
    BY <1>1 DEF vars, IInv, Types
  <2>2. HashIsOfTemp' /\ ContentAddressed' /\ Acknowledged'
    BY <1>1 DEF vars, IInv, HashIsOfTemp, ContentAddressed, Acknowledged
  <2> QED
    BY <2>1, <2>2 DEF IInv
<1>2. ASSUME NEW u \in Uploads, Step(u) PROVE IInv'
  <2>1. CASE Open(u)
    <3>1. /\ UNCHANGED <<tenant, hashed, broken, files>> /\ pc[u] = "open"
          /\ \/ temp' = [temp EXCEPT ![u] = << >>] /\ pc' = [pc EXCEPT ![u] = "stream"]
             \/ temp' = temp /\ pc' = [pc EXCEPT ![u] = "err"]
      BY <2>1 DEF Open
    <3>2. Types'
      BY <3>1, EmptyContent DEF IInv, Types
    <3>3. HashIsOfTemp'
      BY <3>1 DEF IInv, Types, HashIsOfTemp
    <3>4. ContentAddressed' /\ Acknowledged'
      BY <3>1 DEF IInv, Types, ContentAddressed, Acknowledged
    <3> QED
      BY <3>2, <3>3, <3>4 DEF IInv
  <2>2. CASE NextChunk(u)
    <3>1. PICK c \in Chunks :
            /\ hashed' = [hashed EXCEPT ![u] = Append(@, c)]
            /\ \/ /\ broken[u]
                  /\ Goto(u, "cleanup")
                  /\ UNCHANGED <<broken, temp>>
               \/ /\ ~broken[u]
                  /\ temp' = [temp EXCEPT ![u] = Append(@, c)]
                  /\ UNCHANGED <<pc, broken>>
               \/ /\ ~broken[u]
                  /\ broken' = [broken EXCEPT ![u] = TRUE]
                  /\ UNCHANGED <<pc, temp>>
      BY <2>2 DEF NextChunk
    <3>2. Append(hashed[u], c) \in Contents
      BY <2>2, LongerContent DEF NextChunk, IInv, Types
    <3>3. ~broken[u] => temp[u] = hashed[u]
      BY <2>2 DEF NextChunk, IInv, HashIsOfTemp
    <3>4. Types'
      <4>1. hashed' \in [Uploads -> Contents]
        BY <3>1, <3>2 DEF IInv, Types
      <4>2. temp' \in [Uploads -> Contents \cup {NoFile}]
        <5>1. temp' = temp \/ temp' = [temp EXCEPT ![u] = Append(hashed[u], c)]
          BY <3>1, <3>3
        <5> QED
          BY <5>1, <3>2 DEF IInv, Types
      <4>3. /\ pc' = pc \/ pc' = [pc EXCEPT ![u] = "cleanup"]
            /\ broken' = broken \/ broken' = [broken EXCEPT ![u] = TRUE]
            /\ UNCHANGED <<tenant, files>>
        BY <2>2, <3>1 DEF NextChunk
      <4> QED
        BY <4>1, <4>2, <4>3 DEF IInv, Types
    <3>5. HashIsOfTemp'
      <4>1. ASSUME NEW v \in Uploads, v # u
            PROVE  /\ pc'[v] = pc[v] /\ hashed'[v] = hashed[v]
                   /\ broken'[v] = broken[v] /\ temp'[v] = temp[v]
        BY <2>2, <3>1, <4>1 DEF NextChunk, IInv, Types
      <4>2. /\ pc'[u] \in {"stream", "cleanup"}
            /\ pc'[u] = "stream" /\ ~broken'[u] => temp'[u] = hashed'[u]
        BY <2>2, <3>1, <3>3 DEF NextChunk, IInv, Types
      <4> QED
        BY <4>1, <4>2 DEF IInv, HashIsOfTemp
    <3>6. ContentAddressed' /\ Acknowledged'
      BY <2>2, <3>1 DEF NextChunk, IInv, Types, ContentAddressed, Acknowledged
    <3> QED
      BY <3>4, <3>5, <3>6 DEF IInv
  <2>3. CASE StreamFails(u) \/ Flush(u) \/ Target(u)
    <3>1. /\ UNCHANGED <<tenant, hashed, broken, temp, files>>
          /\ \E label \in {"target", "rename", "cleanup", "err"} :
               /\ pc' = [pc EXCEPT ![u] = label]
               /\ label = "target" => pc[u] = "stream" /\ ~broken[u]
               /\ label = "rename" => pc[u] = "target"
      BY <2>3 DEF StreamFails, Flush, Target
    <3>2. Types'
      BY <3>1 DEF IInv, Types
    <3>3. HashIsOfTemp'
      BY <3>1 DEF IInv, Types, HashIsOfTemp
    <3>4. ContentAddressed' /\ Acknowledged'
      BY <3>1 DEF IInv, Types, ContentAddressed, Acknowledged
    <3> QED
      BY <3>2, <3>3, <3>4 DEF IInv
  <2>4. CASE Rename(u) \/ (Dropped(u) /\ pc[u] = "rename")
    <3>0. pc[u] = "rename" /\ UNCHANGED <<tenant, hashed, broken>>
      BY <2>4 DEF Rename, Dropped
    <3>1. CASE Move(u)
      <4>1. Goto(u, "ok") \/ Goto(u, "dropped") \/ Goto(u, "cleanup")
        BY <2>4 DEF Rename, Dropped
      <4>2. Types'
        BY <3>0, <3>1, <4>1, MoveKeeps DEF IInv, Types
      <4>3. HashIsOfTemp'
        <5>1. ASSUME NEW v \in Uploads, v # u
              PROVE  /\ pc'[v] = pc[v] /\ hashed'[v] = hashed[v]
                     /\ broken'[v] = broken[v] /\ temp'[v] = temp[v]
          BY <3>0, <3>1, <4>1, <5>1, MoveKeeps DEF IInv, Types
        <5>2. pc'[u] \in {"ok", "dropped", "cleanup"}
          BY <4>1 DEF IInv, Types
        <5> QED
          BY <5>1, <5>2 DEF IInv, HashIsOfTemp
      <4>4. ContentAddressed'
        BY <3>1, <3>0, MoveKeeps DEF IInv, ContentAddressed
      <4>5. Acknowledged'
        BY <3>0, <3>1, <4>1, MoveKeeps DEF IInv, Types, Acknowledged
      <4> QED
        BY <4>2, <4>3, <4>4, <4>5 DEF IInv
    <3>2. CASE ~Move(u)
      <4>1. /\ UNCHANGED <<temp, files>>
            /\ pc' = [pc EXCEPT ![u] = "cleanup"] \/ pc' = [pc EXCEPT ![u] = "dropped"]
        BY <2>4, <3>0, <3>2 DEF Rename, Dropped
      <4>2. Types'
        BY <3>0, <4>1 DEF IInv, Types
      <4>3. HashIsOfTemp'
        BY <3>0, <4>1 DEF IInv, Types, HashIsOfTemp
      <4>4. ContentAddressed' /\ Acknowledged'
        BY <3>0, <4>1 DEF IInv, Types, ContentAddressed, Acknowledged
      <4> QED
        BY <4>2, <4>3, <4>4 DEF IInv
    <3> QED
      BY <3>1, <3>2
  <2>5. CASE Cleanup(u) \/ (Dropped(u) /\ pc[u] # "rename")
    <3>1. /\ UNCHANGED <<tenant, hashed, broken, files>>
          /\ temp' = temp \/ (temp' = [temp EXCEPT ![u] = NoFile] /\ pc[u] = "cleanup")
          /\ pc' = [pc EXCEPT ![u] = "err"] \/ pc' = [pc EXCEPT ![u] = "dropped"]
      BY <2>5 DEF Cleanup, Dropped
    <3>2. Types'
      BY <3>1 DEF IInv, Types
    <3>3. HashIsOfTemp'
      BY <3>1 DEF IInv, Types, HashIsOfTemp
    <3>4. ContentAddressed' /\ Acknowledged'
      BY <3>1 DEF IInv, Types, ContentAddressed, Acknowledged
    <3> QED
      BY <3>2, <3>3, <3>4 DEF IInv
  <2> QED
    BY <1>2, <2>1, <2>2, <2>3, <2>4, <2>5 DEF Step
<1> QED
  BY <1>1, <1>2 DEF Next

LEMMA Inductive == Spec => []IInv
BY InitIInv, NextIInv, PTL DEF Spec

(***************************************************************************)
(* Whatever writes, flushes, renames and removals fail and wherever        *)
(* uploads are dropped, a file stored by store_file_stream contains what   *)
(* its name says: the flush before the rename is what this rests on.       *)
(***************************************************************************)
THEOREM StoredIsAddressed == Spec => []ContentAddressed
BY Inductive, PTL DEF IInv

(***************************************************************************)
(* What store_file_stream returned Ok for is in the tenant's directory,    *)
(* and no other upload takes it away.                                      *)
(***************************************************************************)
THEOREM AcknowledgedIsStored == Spec => []Acknowledged
BY Inductive, PTL DEF IInv

-----------------------------------------------------------------------------
\* A temporary file exists only while its upload is under way or has failed.
NoTempLeft == \A u \in Uploads : pc[u] \in {"open", "ok"} => temp[u] = NoFile

UInv == OnlyUploaded /\ NoTempLeft

LEMMA InitUInv == Init => UInv
<1> SUFFICES ASSUME Init PROVE UInv
  OBVIOUS
<1>1. temp = [p \in Uploads |-> NoFile]
  BY DEF Init, Paths, TempPath
<1> QED
  BY <1>1 DEF Init, UInv, OnlyUploaded, NoTempLeft

\* A move, together with the end of its upload, gives a file its upload.
LEMMA MoveOwned ==
  ASSUME IInv, UInv, NEW u \in Uploads, pc[u] = "rename", Move(u),
         NEW how \in {"ok", "dropped"}, pc' = [pc EXCEPT ![u] = how],
         UNCHANGED <<tenant, hashed>>
  PROVE  UInv'
<1> USE DEF TempPath, IInv, Types, UInv
<1>1. pc'[u] = how /\ \A v \in Uploads : v # u => pc'[v] = pc[v]
  OBVIOUS
<1>2. NoTempLeft'
  <2>1. temp' = [temp EXCEPT ![u] = NoFile]
    BY DEF Move
  <2> QED
    BY <1>1, <2>1 DEF NoTempLeft
<1>3. ASSUME NEW t \in Tenants, NEW h \in Contents, files'[t][h] # NoFile
      PROVE  \E v \in Uploads :
               tenant'[v] = t /\ hashed'[v] = h /\ pc'[v] \in {"ok", "dropped"}
  <2>1. CASE t = tenant[u] /\ h = hashed[u]
    BY <2>1, <1>1
  <2>2. CASE ~(t = tenant[u] /\ h = hashed[u])
    <3>1. files'[t][h] = files[t][h]
      BY <2>2, <1>3 DEF Move
    <3>2. PICK v \in Uploads :
            tenant[v] = t /\ hashed[v] = h /\ pc[v] \in {"ok", "dropped"}
      BY <3>1, <1>3 DEF OnlyUploaded
    <3> QED
      BY <3>2, <1>1
  <2> QED
    BY <2>1, <2>2
<1> QED
  BY <1>2, <1>3 DEF OnlyUploaded

\* A step that moves nothing and leaves uploads that have ended alone.
LEMMA OtherOwned ==
  ASSUME IInv, UInv, NEW u \in Uploads, files' = files, tenant' = tenant,
         pc[u] \notin {"ok", "dropped"}, pc'[u] \notin {"open", "ok"},
         \A v \in Uploads : v # u => pc'[v] = pc[v] /\ hashed'[v] = hashed[v] /\ temp'[v] = temp[v]
  PROVE  UInv'
<1> USE DEF IInv, Types, UInv
<1>1. NoTempLeft'
  BY DEF NoTempLeft
<1>2. ASSUME NEW t \in Tenants, NEW h \in Contents, files'[t][h] # NoFile
      PROVE  \E v \in Uploads :
               tenant'[v] = t /\ hashed'[v] = h /\ pc'[v] \in {"ok", "dropped"}
  <2>1. PICK v \in Uploads :
          tenant[v] = t /\ hashed[v] = h /\ pc[v] \in {"ok", "dropped"}
    BY <1>2 DEF OnlyUploaded
  <2> QED
    BY <2>1
<1> QED
  BY <1>1, <1>2 DEF OnlyUploaded

LEMMA NextUInv == IInv /\ UInv /\ [Next]_vars => UInv'
<1> SUFFICES ASSUME IInv, UInv, [Next]_vars PROVE UInv'
  OBVIOUS
<1>1. CASE UNCHANGED vars
  BY <1>1 DEF vars, UInv, OnlyUploaded, NoTempLeft
<1>2. ASSUME NEW u \in Uploads, Step(u) PROVE UInv'
  <2> USE DEF Goto, TempPath, IInv, Types
  <2>1. CASE Rename(u)
    <3>1. CASE Move(u) /\ Goto(u, "ok")
      BY <2>1, <3>1, MoveOwned DEF Rename
    <3>2. CASE Goto(u, "cleanup") /\ UNCHANGED <<temp, files>>
      BY <2>1, <3>2, OtherOwned DEF Rename
    <3> QED
      BY <2>1, <3>1, <3>2 DEF Rename
  <2>2. CASE Dropped(u)
    <3>1. CASE pc[u] = "rename" /\ Move(u)
      BY <2>2, <3>1, MoveOwned DEF Dropped
    <3>2. CASE files' = files
      <4>1. temp' = temp \/ temp' = [temp EXCEPT ![u] = NoFile]
        BY <2>2 DEF Dropped, Move
      <4>2. \A v \in Uploads : v # u =>
              pc'[v] = pc[v] /\ hashed'[v] = hashed[v] /\ temp'[v] = temp[v]
        BY <2>2, <4>1 DEF Dropped
      <4>3. pc[u] \notin {"ok", "dropped"} /\ pc'[u] \notin {"open", "ok"}
        BY <2>2 DEF Dropped, Ended
      <4>4. tenant' = tenant
        BY <2>2 DEF Dropped
      <4> QED
        BY <3>2, <4>2, <4>3, <4>4, OtherOwned
    <3> QED
      BY <2>2, <3>1, <3>2 DEF Dropped
  <2>3. CASE Open(u)
    BY <2>3, OtherOwned DEF Open
  <2>4. CASE NextChunk(u)
    BY <2>4, OtherOwned DEF NextChunk
  <2>5. CASE StreamFails(u)
    BY <2>5, OtherOwned DEF StreamFails
  <2>6. CASE Flush(u)
    BY <2>6, OtherOwned DEF Flush
  <2>7. CASE Target(u)
    BY <2>7, OtherOwned DEF Target
  <2>8. CASE Cleanup(u)
    BY <2>8, OtherOwned DEF Cleanup
  <2> QED
    BY <1>2, <2>1, <2>2, <2>3, <2>4, <2>5, <2>6, <2>7, <2>8 DEF Step
<1> QED
  BY <1>1, <1>2 DEF Next

LEMMA Owned == Spec => []UInv
<1>1. IInv /\ UInv /\ [Next]_vars => (IInv /\ UInv)'
  BY NextIInv, NextUInv
<1> QED
  BY <1>1, InitIInv, InitUInv, PTL DEF Spec

(***************************************************************************)
(* Type correctness, and no temporary file is left behind by a success.    *)
(***************************************************************************)
THEOREM TypeCorrect == Spec => []TypeOK
<1>1. IInv /\ UInv => TypeOK
  BY DEF IInv, UInv, Types, NoTempLeft, TypeOK, Paths, TempPath
<1> QED
  BY <1>1, Inductive, Owned, PTL

(***************************************************************************)
(* Whatever fails or is dropped, a tenant's file was uploaded by it, whole *)
(* and under its hash.                                                     *)
(***************************************************************************)
THEOREM StoredIsUploaded == Spec => []OnlyUploaded
BY Owned, PTL DEF UInv
=============================================================================
