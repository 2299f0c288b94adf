-------------------------- MODULE LocalStorageProofs --------------------------
(***************************************************************************)
(* Theorems about LocalStorage, for every number of keys, of threads and   *)
(* of chunks, and of failed writes and crashes.                            *)
(***************************************************************************)
EXTENDS LocalStorage, Images, TLAPS

-----------------------------------------------------------------------------
(* There is always a file for a writer that opens one.                     *)

LEMMA NeverShort ==
  ASSUME TypeOK, NEW w \in Writers, wfile[w] = NoFile
  PROVE  Fresh \in Free
<1> DEFINE V == Writers \ {w}
           open == [v \in V |-> wfile[v]]
           T == Values(tmp, Keys)
           O == Values(obj, Keys)
           F == Values(open, V)
<1>1. IsFiniteSet(T) /\ Cardinality(T) <= Cardinality(Keys)
  <2>1. tmp = [k \in Keys |-> tmp[k]]
    BY DEF TypeOK
  <2> QED
    BY <2>1, FewValues, LocalAssumption
<1>2. IsFiniteSet(O) /\ Cardinality(O) <= Cardinality(Keys)
  <2>1. obj = [k \in Keys |-> obj[k]]
    BY DEF TypeOK
  <2> QED
    BY <2>1, FewValues, LocalAssumption
<1>3. IsFiniteSet(V) /\ Cardinality(V) = Cardinality(Writers) - 1
  BY FS_RemoveElement, LocalAssumption
<1>4. IsFiniteSet(F) /\ Cardinality(F) <= Cardinality(V)
  <2>1. open = [v \in V |-> open[v]]
    OBVIOUS
  <2> QED
    BY <1>3, <2>1, FewValues
<1>5. /\ Cardinality(Keys) \in Nat /\ Cardinality(Writers) \in Nat
      /\ Cardinality(T) \in Nat /\ Cardinality(O) \in Nat /\ Cardinality(F) \in Nat
  BY <1>1, <1>2, <1>4, FS_CardinalityType, LocalAssumption
<1>6. /\ IsFiniteSet(T \cup O \cup F)
      /\ Cardinality(T \cup O \cup F) < 2 * Cardinality(Keys) + Cardinality(Writers)
  <2>1. /\ IsFiniteSet(T \cup O) /\ Cardinality(T \cap O) \in Nat
        /\ Cardinality(T \cup O) = Cardinality(T) + Cardinality(O) - Cardinality(T \cap O)
    BY <1>1, <1>2, FS_Union, FS_Intersection, FS_CardinalityType
  <2>2. /\ IsFiniteSet((T \cup O) \cup F) /\ Cardinality((T \cup O) \cap F) \in Nat
        /\ Cardinality((T \cup O) \cup F)
             = Cardinality(T \cup O) + Cardinality(F) - Cardinality((T \cup O) \cap F)
    BY <1>4, <2>1, FS_Union, FS_Intersection, FS_CardinalityType
  <2> HIDE DEF T, O, F, V
  <2> QED
    BY <1>1, <1>2, <1>3, <1>4, <1>5, <2>1, <2>2
<1>7. /\ IsFiniteSet(FileIds)
      /\ Cardinality(FileIds) = 2 * Cardinality(Keys) + Cardinality(Writers)
  <2>1. /\ 2 * Cardinality(Keys) + Cardinality(Writers) \in Int
        /\ 1 \in Int /\ 2 * Cardinality(Keys) + Cardinality(Writers) >= 0
    BY <1>5
  <2> DEFINE n == 2 * Cardinality(Keys) + Cardinality(Writers)
  <2>2. IsFiniteSet(1 .. n) /\ Cardinality(1 .. n) = IF 1 > n THEN 0 ELSE n - 1 + 1
    <3> HIDE DEF n
    <3>1. n \in Int
      BY <2>1 DEF n
    <3> QED
      BY <3>1, FS_Interval
  <2> QED
    BY <2>1, <2>2 DEF FileIds
<1>8. ~(FileIds \subseteq T \cup O \cup F)
  <2> DEFINE U == T \cup O \cup F
  <2>1. /\ IsFiniteSet(U) /\ Cardinality(U) \in Nat /\ Cardinality(U) < Cardinality(FileIds)
        /\ Cardinality(FileIds) \in Nat
    BY <1>6, <1>7, FS_CardinalityType
  <2> SUFFICES ASSUME FileIds \in SUBSET U PROVE FALSE
    OBVIOUS
  <2> HIDE DEF U
  <2>2. Cardinality(FileIds) <= Cardinality(U)
    BY <2>1, FS_Subset
  <2> QED
    BY <2>1, <2>2
<1>9. \A i \in FileIds : i \notin T \cup O \cup F => i \in Free
  <2>1. ASSUME NEW i \in FileIds, i \notin T \cup O \cup F PROVE i \in Free
    <3>1. ~Named(i)
      BY <2>1 DEF Named, Values
    <3>2. ASSUME NEW v \in Writers PROVE wfile[v] # i
      <4>1. CASE v = w
        BY <4>1, <1>5 DEF NoFile, FileIds
      <4>2. CASE v # w
        BY <4>2, <2>1 DEF Values
      <4> QED
        BY <4>1, <4>2
    <3> QED
      BY <3>1, <3>2 DEF Free
  <2> QED
    BY <2>1
<1>10. \E i \in FileIds : i \in Free
  BY <1>8, <1>9
<1> QED
  BY <1>10 DEF Fresh

-----------------------------------------------------------------------------
(* The inductive invariant: which names a file has, and who writes to it.  *)

\* A writer is busy when it has a key and a file open.
Busy ==
  \A w \in Writers :
    /\ wpc[w] = "writing" => wfile[w] \in FileIds /\ wkey[w] \in Keys
    /\ wpc[w] = "idle" => wfile[w] = NoFile /\ wkey[w] = NoKey

\* No file has two names.
OneName ==
  \A k, l \in Keys :
    /\ tmp[k] = tmp[l] /\ tmp[k] # NoFile => k = l
    /\ obj[k] = obj[l] /\ obj[k] # NoFile => k = l
    /\ tmp[k] = obj[l] => tmp[k] = NoFile

\* An open file has no name of a key but the one its writer puts.
OwnFile ==
  \A w \in Writers, k \in Keys :
    wfile[w] # NoFile /\ wfile[w] \in {tmp[k], obj[k]} => wkey[w] = k

\* A writer whose key is not shared is alone with its file.
Alone ==
  \A w \in Writers :
    wpc[w] = "writing" /\ wkey[w] \notin shared =>
      /\ tmp[wkey[w]] = wfile[w]
      /\ data[wfile[w]] = 1 .. at[w]
      /\ \A v \in Writers \ {w} : wkey[v] # wkey[w]

Inv == TypeOK /\ Busy /\ OneName /\ OwnFile /\ Alone /\ UnsharedIsComplete

LEMMA InitInv == Init => Inv
  BY LocalAssumption
  DEF Init, Inv, TypeOK, Busy, OneName, OwnFile, Alone, UnsharedIsComplete, NoFile, FileIds

\* The file that is opened under k.tmp is named k.tmp or not at all.
LEMMA OpenedFile ==
  ASSUME Inv, NEW w \in Writers, NEW k \in Keys, OpenTmp(w, k)
  PROVE  \E i \in FileIds :
           /\ Opens(w, k, i) /\ tmp' = [tmp EXCEPT ![k] = i]
           /\ i = tmp[k] \/ (i \in Free /\ tmp[k] = NoFile)
<1>1. wfile[w] = NoFile
  BY DEF OpenTmp, Opens, Inv, Busy
<1>2. Fresh \in Free
  BY <1>1, NeverShort DEF Inv
<1>3. Fresh \in FileIds
  BY <1>2 DEF Free
<1>4. CASE tmp[k] # NoFile
  <2>1. tmp[k] \in FileIds /\ Opens(w, k, tmp[k]) /\ tmp' = [tmp EXCEPT ![k] = tmp[k]]
    BY <1>4 DEF OpenTmp, Inv, TypeOK
  <2> QED
    BY <2>1
<1>5. CASE tmp[k] = NoFile
  <2>1. Opens(w, k, Fresh) /\ tmp' = [tmp EXCEPT ![k] = Fresh]
    BY <1>5 DEF OpenTmp
  <2> QED
    BY <1>2, <1>3, <1>5, <2>1
<1> QED
  BY <1>4, <1>5

LEMMA OpenStep ==
  ASSUME Inv, NEW w \in Writers, NEW k \in Keys, OpenTmp(w, k)
  PROVE  Inv'
<1> USE LocalAssumption DEF Inv
<1>1. PICK i \in FileIds :
        /\ Opens(w, k, i) /\ tmp' = [tmp EXCEPT ![k] = i]
        /\ i = tmp[k] \/ (i \in Free /\ tmp[k] = NoFile)
  BY OpenedFile
<1>2. /\ wpc[w] = "idle"
      /\ data' = [data EXCEPT ![i] = {}]
      /\ wpc' = [wpc EXCEPT ![w] = "writing"]
      /\ wkey' = [wkey EXCEPT ![w] = k]
      /\ wfile' = [wfile EXCEPT ![w] = i]
      /\ at' = [at EXCEPT ![w] = 0]
      /\ shared \subseteq shared' /\ shared' \subseteq shared \cup {k}
      /\ (\E v \in Writers : wkey[v] = k) => k \in shared'
      /\ obj' = obj /\ faults' = faults
  BY <1>1 DEF Opens, OpenTmp
<1>3. i # NoFile /\ NoFile \notin FileIds /\ k # NoKey
  BY DEF FileIds, NoFile
<1>4. \A l \in Keys : obj[l] # i /\ (tmp[l] = i => l = k)
  BY <1>1, <1>3 DEF Free, Named, OneName
<1>5. \A v \in Writers : wfile[v] = i => wkey[v] = k
  BY <1>1, <1>3 DEF Free, OwnFile
<1>6. TypeOK'
  BY <1>1, <1>2 DEF TypeOK
<1>7. Busy'
  BY <1>2, <1>3 DEF Busy, TypeOK
<1>8. OneName'
  BY <1>1, <1>2, <1>4 DEF OneName, TypeOK
<1>9. OwnFile'
  BY <1>1, <1>2, <1>4, <1>5 DEF OwnFile, TypeOK
<1>10. Alone'
  <2> SUFFICES ASSUME NEW v \in Writers, wpc'[v] = "writing", wkey'[v] \notin shared'
               PROVE  /\ tmp'[wkey'[v]] = wfile'[v]
                      /\ data'[wfile'[v]] = 1 .. at'[v]
                      /\ \A x \in Writers \ {v} : wkey'[x] # wkey'[v]
    BY DEF Alone
  <2>1. CASE v = w
    <3>1. wkey'[v] = k /\ wfile'[v] = i /\ at'[v] = 0 /\ data'[i] = {} /\ tmp'[k] = i
      BY <1>1, <1>2, <2>1 DEF TypeOK
    <3>2. \A x \in Writers : wkey[x] # k
      BY <1>2, <3>1
    <3> QED
      BY <1>2, <2>1, <3>1, <3>2 DEF TypeOK
  <2>2. CASE v # w
    <3>1. /\ wkey'[v] = wkey[v] /\ wfile'[v] = wfile[v] /\ at'[v] = at[v] /\ wpc'[v] = wpc[v]
      BY <1>2, <2>2 DEF TypeOK
    <3>2. wkey[v] # k /\ wkey[v] \notin shared
      BY <1>2, <3>1
    <3>3. wfile[v] # i /\ wfile[v] \in FileIds /\ wkey[v] \in Keys
      BY <1>5, <3>1, <3>2 DEF Busy
    <3> QED
      BY <1>1, <1>2, <3>1, <3>2, <3>3 DEF Alone, TypeOK
  <2> QED
    BY <2>1, <2>2
<1>11. UnsharedIsComplete'
  <2> SUFFICES ASSUME NEW l \in Keys \ shared', obj'[l] # NoFile
               PROVE  data'[obj'[l]] = Complete
    BY DEF UnsharedIsComplete, Complete
  <2> QED
    BY <1>2, <1>4 DEF UnsharedIsComplete, TypeOK
<1> QED
  BY <1>6, <1>7, <1>8, <1>9, <1>10, <1>11

LEMMA ChunkStep ==
  ASSUME Inv, NEW w \in Writers, WriteChunk(w)
  PROVE  Inv'
<1> USE LocalAssumption DEF Inv
<1>1. /\ wpc[w] = "writing" /\ at[w] < Chunks
      /\ at' = [at EXCEPT ![w] = at[w] + 1]
      /\ data' = [data EXCEPT ![wfile[w]] = data[wfile[w]] \cup {at[w] + 1}]
      /\ UNCHANGED <<tmp, obj, wpc, wkey, wfile, faults, shared>>
  BY DEF WriteChunk
<1>2. wfile[w] \in FileIds /\ wkey[w] \in Keys /\ at[w] \in Nat
  BY <1>1 DEF Busy, TypeOK
<1>3. TypeOK'
  <2>1. at[w] + 1 \in 1 .. Chunks
    BY <1>1, <1>2
  <2> QED
    BY <1>1, <1>2, <2>1 DEF TypeOK, Complete
<1>4. Busy' /\ OneName' /\ OwnFile'
  BY <1>1 DEF Busy, OneName, OwnFile
<1>5. Alone'
  <2> SUFFICES ASSUME NEW v \in Writers, wpc[v] = "writing", wkey[v] \notin shared
               PROVE  /\ tmp[wkey[v]] = wfile[v]
                      /\ data'[wfile[v]] = 1 .. at'[v]
                      /\ \A x \in Writers \ {v} : wkey[x] # wkey[v]
    BY <1>1 DEF Alone
  <2>1. /\ tmp[wkey[v]] = wfile[v] /\ data[wfile[v]] = 1 .. at[v]
        /\ \A x \in Writers \ {v} : wkey[x] # wkey[v]
        /\ wkey[v] \in Keys /\ wfile[v] \in FileIds /\ wfile[v] # NoFile
    BY DEF Alone, Busy, FileIds, NoFile
  <2>2. CASE v = w
    <3>1. at'[v] = at[w] + 1 /\ data'[wfile[v]] = (1 .. at[w]) \cup {at[w] + 1}
      BY <1>1, <1>2, <2>1, <2>2 DEF TypeOK
    <3>2. (1 .. at[w]) \cup {at[w] + 1} = 1 .. at[w] + 1
      BY <1>2
    <3> QED
      BY <2>1, <3>1, <3>2
  <2>3. CASE v # w
    <3>1. wfile[w] # wfile[v]
      BY <1>2, <2>1, <2>3 DEF OwnFile
    <3> QED
      BY <1>1, <2>1, <2>3, <3>1 DEF TypeOK
  <2> QED
    BY <2>2, <2>3
<1>6. UnsharedIsComplete'
  <2> SUFFICES ASSUME NEW l \in Keys \ shared, obj[l] # NoFile
               PROVE  data'[obj[l]] = Complete
    BY <1>1 DEF UnsharedIsComplete, Complete
  <2>1. wfile[w] # obj[l]
    <3> SUFFICES ASSUME wfile[w] = obj[l] PROVE FALSE
      OBVIOUS
    <3>1. wkey[w] = l
      BY <1>2 DEF OwnFile
    <3>2. tmp[l] = obj[l]
      BY <1>1, <3>1 DEF Alone
    <3> QED
      BY <3>2 DEF OneName
  <2> QED
    BY <1>1, <2>1 DEF UnsharedIsComplete, TypeOK
<1> QED
  BY <1>3, <1>4, <1>5, <1>6

\* A writer that closes its file leaves the others as they were.
Closed(w) ==
  /\ wpc' = [wpc EXCEPT ![w] = "idle"]
  /\ wkey' = [wkey EXCEPT ![w] = NoKey]
  /\ wfile' = [wfile EXCEPT ![w] = NoFile]
  /\ at' = [at EXCEPT ![w] = 0]
  /\ UNCHANGED <<data, shared>> /\ faults' \in 0 .. MaxFaults

LEMMA ClosedKeeps ==
  ASSUME Inv, NEW w \in Writers, Closed(w)
  PROVE  /\ Busy' /\ data' \in [FileIds -> SUBSET Complete]
         /\ wpc' \in [Writers -> {"idle", "writing"}]
         /\ wkey' \in [Writers -> Keys \cup {NoKey}]
         /\ wfile' \in [Writers -> FileIds \cup {NoFile}]
         /\ at' \in [Writers -> 0 .. Chunks]
         /\ wfile'[w] = NoFile /\ wpc'[w] = "idle" /\ wkey'[w] = NoKey
         /\ \A v \in Writers \ {w} : /\ wpc'[v] = wpc[v] /\ wkey'[v] = wkey[v]
                                     /\ wfile'[v] = wfile[v] /\ at'[v] = at[v]
<1> USE LocalAssumption DEF Inv, Closed
<1>1. /\ data' \in [FileIds -> SUBSET Complete]
      /\ wpc' \in [Writers -> {"idle", "writing"}]
      /\ wkey' \in [Writers -> Keys \cup {NoKey}]
      /\ wfile' \in [Writers -> FileIds \cup {NoFile}]
      /\ at' \in [Writers -> 0 .. Chunks]
  BY DEF TypeOK
<1>2. /\ wfile'[w] = NoFile /\ wpc'[w] = "idle" /\ wkey'[w] = NoKey
      /\ \A v \in Writers \ {w} : /\ wpc'[v] = wpc[v] /\ wkey'[v] = wkey[v]
                                  /\ wfile'[v] = wfile[v] /\ at'[v] = at[v]
  BY DEF TypeOK
<1>3. Busy'
  BY <1>2 DEF Busy
<1> QED
  BY <1>1, <1>2, <1>3

LEMMA ReplaceStep ==
  ASSUME Inv, NEW w \in Writers, Replace(w)
  PROVE  Inv'
<1> DEFINE k == wkey[w]
<1>1. /\ wpc[w] = "writing" /\ at[w] = Chunks /\ tmp[k] # NoFile
      /\ obj' = [obj EXCEPT ![k] = tmp[k]]
      /\ tmp' = [tmp EXCEPT ![k] = NoFile]
      /\ Closed(w) /\ faults' = faults
  BY DEF Replace, Close, Closed, Inv, TypeOK
<1>2. k \in Keys /\ k # NoKey
  BY <1>1, LocalAssumption DEF Inv, Busy
<1> HIDE DEF k
<1> USE LocalAssumption DEF Inv
<1>3. /\ tmp'[k] = NoFile /\ obj'[k] = tmp[k]
      /\ \A l \in Keys \ {k} : tmp'[l] = tmp[l] /\ obj'[l] = obj[l]
  BY <1>1, <1>2 DEF TypeOK
<1>4. TypeOK'
  BY <1>1, <1>2, ClosedKeeps DEF TypeOK, Closed
<1>5. OneName'
  BY <1>2, <1>3 DEF OneName
<1>6. OwnFile'
  <2> SUFFICES ASSUME NEW v \in Writers, NEW l \in Keys, wfile'[v] # NoFile,
                      wfile'[v] \in {tmp'[l], obj'[l]}
               PROVE  wkey'[v] = l
    BY DEF OwnFile
  <2>1. v # w
    BY <1>1, ClosedKeeps
  <2>2. wfile'[v] = wfile[v] /\ wkey'[v] = wkey[v]
    BY <1>1, <2>1, ClosedKeeps
  <2> QED
    BY <1>2, <1>3, <2>2 DEF OwnFile
<1>7. Alone'
  <2> SUFFICES ASSUME NEW v \in Writers, wpc'[v] = "writing", wkey'[v] \notin shared'
               PROVE  /\ tmp'[wkey'[v]] = wfile'[v]
                      /\ data'[wfile'[v]] = 1 .. at'[v]
                      /\ \A x \in Writers \ {v} : wkey'[x] # wkey'[v]
    BY DEF Alone
  <2>1. v # w
    BY <1>1, ClosedKeeps
  <2>2. /\ wpc'[v] = wpc[v] /\ wkey'[v] = wkey[v] /\ wfile'[v] = wfile[v] /\ at'[v] = at[v]
        /\ shared' = shared /\ data' = data
    BY <1>1, <2>1, ClosedKeeps DEF Closed
  <2>3. wkey[v] \in Keys
    BY <2>2 DEF Busy
  <2>4. /\ tmp[wkey[v]] = wfile[v] /\ data[wfile[v]] = 1 .. at[v]
        /\ \A x \in Writers \ {v} : wkey[x] # wkey[v]
    BY <2>2 DEF Alone
  <2>5. wkey[v] # k
    BY <2>1, <2>4 DEF k
  <2>6. tmp'[wkey[v]] = tmp[wkey[v]]
    BY <1>3, <2>3, <2>5
  <2>7. \A x \in Writers \ {v} : wkey'[x] # wkey[v]
    BY <1>1, <2>3, <2>4, ClosedKeeps
  <2> QED
    BY <2>2, <2>4, <2>6, <2>7
<1>8. UnsharedIsComplete'
  <2> SUFFICES ASSUME NEW l \in Keys \ shared', obj'[l] # NoFile
               PROVE  data'[obj'[l]] = Complete
    BY DEF UnsharedIsComplete, Complete
  <2>1. CASE l = k
    <3>1. tmp[k] = wfile[w] /\ data[wfile[w]] = 1 .. at[w]
      BY <1>1, <2>1 DEF Alone, k, Closed
    <3> QED
      BY <1>1, <1>3, <2>1, <3>1 DEF Complete, Closed
  <2>2. CASE l # k
    BY <1>1, <1>3, <2>2 DEF UnsharedIsComplete, Closed
  <2> QED
    BY <2>1, <2>2
<1> QED
  BY <1>1, <1>4, <1>5, <1>6, <1>7, <1>8, ClosedKeeps

LEMMA GiveUpStep ==
  ASSUME Inv, NEW w \in Writers, ReplaceRaises(w) \/ WriteFails(w)
  PROVE  Inv'
<1>1. Closed(w) /\ UNCHANGED <<tmp, obj>>
  BY LocalAssumption DEF ReplaceRaises, WriteFails, Close, Closed, Inv, TypeOK
<1> USE DEF Inv
<1>2. /\ wfile'[w] = NoFile /\ wpc'[w] = "idle" /\ wkey'[w] = NoKey /\ Busy'
      /\ \A v \in Writers \ {w} : /\ wpc'[v] = wpc[v] /\ wkey'[v] = wkey[v]
                                  /\ wfile'[v] = wfile[v] /\ at'[v] = at[v]
      /\ UNCHANGED <<data, shared>>
  BY <1>1, ClosedKeeps DEF Closed
<1>3. TypeOK'
  BY <1>1, ClosedKeeps DEF TypeOK, Closed
<1>4. OneName' /\ UnsharedIsComplete'
  BY <1>1, <1>2 DEF OneName, UnsharedIsComplete, Complete
<1>5. OwnFile'
  BY <1>1, <1>2 DEF OwnFile
<1>6. Alone'
  <2> SUFFICES ASSUME NEW v \in Writers, wpc'[v] = "writing", wkey'[v] \notin shared'
               PROVE  /\ tmp'[wkey'[v]] = wfile'[v]
                      /\ data'[wfile'[v]] = 1 .. at'[v]
                      /\ \A x \in Writers \ {v} : wkey'[x] # wkey'[v]
    BY DEF Alone
  <2>1. v # w
    BY <1>2
  <2>2. /\ wpc'[v] = wpc[v] /\ wkey'[v] = wkey[v] /\ wfile'[v] = wfile[v] /\ at'[v] = at[v]
    BY <1>2, <2>1
  <2>3. /\ tmp[wkey[v]] = wfile[v] /\ data[wfile[v]] = 1 .. at[v]
        /\ (\A x \in Writers \ {v} : wkey[x] # wkey[v]) /\ wkey[v] # NoKey
    BY <1>2, <2>2, LocalAssumption DEF Alone, Busy
  <2> QED
    BY <1>1, <1>2, <2>2, <2>3
<1> QED
  BY <1>2, <1>3, <1>4, <1>5, <1>6

LEMMA DeleteStep ==
  ASSUME Inv, NEW k \in Keys, Delete(k)
  PROVE  Inv'
<1>1. obj' = [obj EXCEPT ![k] = NoFile] /\ UNCHANGED <<tmp, data, writerVars, faults, shared>>
  BY DEF Delete
<1> USE DEF Inv
<1>2. obj'[k] = NoFile /\ \A l \in Keys \ {k} : obj'[l] = obj[l]
  BY <1>1 DEF TypeOK
<1>3. TypeOK' /\ Busy' /\ Alone'
  BY <1>1 DEF TypeOK, Busy, Alone, writerVars
<1>4. OneName' /\ OwnFile' /\ UnsharedIsComplete'
  BY <1>1, <1>2 DEF OneName, OwnFile, UnsharedIsComplete, writerVars, Complete
<1> QED
  BY <1>3, <1>4

LEMMA CrashStep ==
  ASSUME Inv, Crash
  PROVE  Inv'
<1>1. /\ wpc' = [w \in Writers |-> "idle"] /\ wkey' = [w \in Writers |-> NoKey]
      /\ wfile' = [w \in Writers |-> NoFile] /\ at' = [w \in Writers |-> 0]
      /\ faults' = faults + 1 /\ faults < MaxFaults
      /\ UNCHANGED <<tmp, obj, data, shared>>
  BY DEF Crash
<1> USE LocalAssumption DEF Inv
<1>2. TypeOK'
  BY <1>1 DEF TypeOK
<1>3. Busy' /\ OwnFile' /\ Alone'
  BY <1>1 DEF Busy, OwnFile, Alone
<1>4. OneName' /\ UnsharedIsComplete'
  BY <1>1 DEF OneName, UnsharedIsComplete, Complete
<1> QED
  BY <1>2, <1>3, <1>4

LEMMA InvStep == Inv /\ [Next]_vars => Inv'
<1> SUFFICES ASSUME Inv, [Next]_vars PROVE Inv'
  OBVIOUS
<1>1. CASE UNCHANGED vars
  BY <1>1 DEF vars, writerVars, Inv, TypeOK, Busy, OneName, OwnFile, Alone, UnsharedIsComplete,
     Complete
<1> QED
  BY <1>1, OpenStep, ChunkStep, ReplaceStep, GiveUpStep, DeleteStep, CrashStep DEF Next

\* Names, files and chunks keep their ranges: there is always a file to open.
THEOREM TypeCorrect == Spec => []TypeOK
<1>1. Inv => TypeOK
  BY DEF Inv
<1> QED
  BY InitInv, InvStep, <1>1, PTL DEF Spec

\* No crash and no failed write leaves a truncated file under a key's name, as
\* long as no two puts of the key overlap.
THEOREM UnsharedComplete == Spec => []UnsharedIsComplete
<1>1. Inv => UnsharedIsComplete
  BY DEF Inv
<1> QED
  BY InitInv, InvStep, <1>1, PTL DEF Spec

\* A writer that is alone on its key finds its own file under the temporary name.
THEOREM AloneFindsItsTmp == Spec => []TmpIsMine
<1>1. Inv => TmpIsMine
  BY DEF Inv, Alone, TmpIsMine
<1> QED
  BY InitInv, InvStep, <1>1, PTL DEF Spec

-----------------------------------------------------------------------------
(* TornIsBeingWritten: of the writers of a file, the one that opened it    *)
(* last finds all it wrote in place, and completes it.                     *)

Lasts(v, i) == wfile[v] = i /\ 1 .. at[v] \subseteq data[i]

Attended == \A w \in Writers : wfile[w] # NoFile => \E v \in Writers : Lasts(v, wfile[w])

Healing ==
  \A k \in Keys : \A i \in {tmp[k], obj[k]} :
    i # NoFile => data[i] = Complete \/ \E w \in Writers : wfile[w] = i

Heals == faults = 0 => Attended /\ Healing

LEMMA OpenHeals ==
  ASSUME Inv, Attended, Healing, NEW w \in Writers, NEW k \in Keys, OpenTmp(w, k)
  PROVE  Attended' /\ Healing'
<1>1. PICK i \in FileIds :
        /\ Opens(w, k, i) /\ tmp' = [tmp EXCEPT ![k] = i]
        /\ i = tmp[k] \/ (i \in Free /\ tmp[k] = NoFile)
  BY OpenedFile
<1>2. /\ data' = [data EXCEPT ![i] = {}]
      /\ wfile' = [wfile EXCEPT ![w] = i] /\ wfile[w] = NoFile
      /\ at' = [at EXCEPT ![w] = 0] /\ obj' = obj
  BY <1>1 DEF Opens, OpenTmp, Inv, Busy
<1>3. i # NoFile /\ \A l \in Keys : obj[l] # i /\ (tmp[l] = i => l = k)
  BY <1>1 DEF Free, Named, Inv, OneName, FileIds, NoFile
<1>4. /\ wfile'[w] = i /\ at'[w] = 0 /\ data'[i] = {}
      /\ \A v \in Writers \ {w} : wfile'[v] = wfile[v] /\ at'[v] = at[v]
      /\ \A j \in FileIds \ {i} : data'[j] = data[j]
      /\ tmp'[k] = i /\ \A l \in Keys \ {k} : tmp'[l] = tmp[l]
  BY <1>1, <1>2 DEF Inv, TypeOK
<1>5. Lasts(w, i)'
  <2>1. 1 .. 0 = {}
    OBVIOUS
  <2> QED
    BY <1>4, <2>1 DEF Lasts
<1>6. ASSUME NEW v \in Writers, wfile'[v] # NoFile
      PROVE  \E x \in Writers : Lasts(x, wfile[v])'
  <2>1. CASE wfile'[v] = i
    BY <1>5, <2>1 DEF Lasts
  <2>2. CASE wfile'[v] # i
    <3>1. v # w /\ wfile'[v] = wfile[v] /\ wfile[v] \in FileIds \ {i}
      BY <1>4, <1>6, <2>2 DEF Inv, TypeOK
    <3>2. PICK x \in Writers : Lasts(x, wfile[v])
      BY <1>6, <3>1 DEF Attended
    <3>3. x # w
      BY <1>2, <1>6, <3>1, <3>2 DEF Lasts
    <3> QED
      BY <1>4, <3>1, <3>2, <3>3 DEF Lasts
  <2> QED
    BY <2>1, <2>2
<1>7. ASSUME NEW l \in Keys, NEW j \in {tmp'[l], obj'[l]}, j # NoFile
      PROVE  data'[j] = Complete \/ \E v \in Writers : wfile'[v] = j
  <2>1. CASE j = i
    BY <1>4, <2>1
  <2>2. CASE j # i
    <3>1. j \in {tmp[l], obj[l]} /\ j \in FileIds
      BY <1>2, <1>4, <1>7, <2>2 DEF Inv, TypeOK
    <3>2. data[j] = Complete \/ \E v \in Writers : wfile[v] = j
      BY <1>7, <3>1 DEF Healing
    <3> QED
      BY <1>2, <1>4, <1>7, <2>2, <3>1, <3>2
  <2> QED
    BY <2>1, <2>2
<1> QED
  BY <1>6, <1>7 DEF Attended, Healing, Complete

LEMMA ChunkHeals ==
  ASSUME Inv, Attended, Healing, NEW w \in Writers, WriteChunk(w)
  PROVE  Attended' /\ Healing'
<1>1. /\ at' = [at EXCEPT ![w] = at[w] + 1]
      /\ data' = [data EXCEPT ![wfile[w]] = data[wfile[w]] \cup {at[w] + 1}]
      /\ UNCHANGED <<tmp, obj, wfile>> /\ wfile[w] \in FileIds
      /\ at[w] \in Nat /\ at[w] < Chunks
  BY DEF WriteChunk, Inv, Busy, TypeOK
<1>2. /\ \A j \in FileIds : data[j] \subseteq data'[j]
      /\ \A j \in FileIds : data[j] = Complete => data'[j] = Complete
  <2>1. at[w] + 1 \in Complete
    BY <1>1, LocalAssumption DEF Complete
  <2>2. \A j \in FileIds : data'[j] = IF j = wfile[w] THEN data[j] \cup {at[w] + 1} ELSE data[j]
    BY <1>1 DEF Inv, TypeOK
  <2> QED
    BY <2>1, <2>2
<1>3. \A v \in Writers, j \in FileIds : Lasts(v, j) => Lasts(v, j)'
  <2> SUFFICES ASSUME NEW v \in Writers, NEW j \in FileIds, Lasts(v, j)
               PROVE  Lasts(v, j)'
    OBVIOUS
  <2>1. CASE v = w
    <3>1. j = wfile[w] /\ at'[v] = at[w] + 1 /\ data'[j] = data[j] \cup {at[w] + 1}
      BY <1>1, <2>1 DEF Lasts, Inv, TypeOK
    <3>2. 1 .. at[w] + 1 = (1 .. at[w]) \cup {at[w] + 1}
      BY <1>1
    <3> QED
      BY <1>1, <2>1, <3>1, <3>2 DEF Lasts
  <2>2. CASE v # w
    BY <1>1, <1>2, <2>2 DEF Lasts, Inv, TypeOK
  <2> QED
    BY <2>1, <2>2
<1>4. Attended'
  <2> SUFFICES ASSUME NEW v \in Writers, wfile[v] # NoFile
               PROVE  \E x \in Writers : Lasts(x, wfile[v])'
    BY <1>1 DEF Attended, Lasts
  <2>1. wfile[v] \in FileIds
    BY DEF Inv, TypeOK
  <2> QED
    BY <1>1, <1>3, <2>1 DEF Attended, Lasts
<1>5. Healing'
  <2> SUFFICES ASSUME NEW l \in Keys, NEW j \in {tmp[l], obj[l]}, j # NoFile
               PROVE  data'[j] = Complete \/ \E v \in Writers : wfile[v] = j
    BY <1>1 DEF Healing, Complete
  <2>1. j \in FileIds
    BY DEF Inv, TypeOK
  <2> QED
    BY <1>2, <2>1 DEF Healing
<1> QED
  BY <1>4, <1>5

\* A writer that is done leaves a whole file, or one that another still writes.
LEMMA DoneHeals ==
  ASSUME Inv, Attended, Healing, NEW w \in Writers, Closed(w), at[w] = Chunks,
         wfile[w] \in FileIds,
         \A k \in Keys : \A i \in {tmp'[k], obj'[k]} :
           i # NoFile => \E l \in Keys : i \in {tmp[l], obj[l]}
  PROVE  Attended' /\ Healing'
<1>1. /\ wfile'[w] = NoFile /\ data' = data
      /\ \A v \in Writers \ {w} : wfile'[v] = wfile[v] /\ at'[v] = at[v]
  BY ClosedKeeps DEF Closed
<1>2. NoFile \notin FileIds
  BY DEF NoFile, FileIds
<1>3. \A i \in FileIds : (\E v \in Writers : wfile[v] = i) =>
        data[i] = Complete \/ \E x \in Writers \ {w} : Lasts(x, i)
  <2> SUFFICES ASSUME NEW i \in FileIds, NEW v \in Writers, wfile[v] = i
               PROVE  data[i] = Complete \/ \E x \in Writers \ {w} : Lasts(x, i)
    OBVIOUS
  <2>1. PICK x \in Writers : Lasts(x, i)
    BY <1>2 DEF Attended
  <2>2. CASE x = w
    BY <2>1, <2>2 DEF Lasts, Complete, Inv, TypeOK
  <2> QED
    BY <2>1, <2>2
<1>4. \A x \in Writers \ {w}, i \in FileIds : Lasts(x, i) => Lasts(x, i)'
  BY <1>1 DEF Lasts
<1>5. Attended'
  <2> SUFFICES ASSUME NEW v \in Writers, wfile'[v] # NoFile
               PROVE  \E x \in Writers : Lasts(x, wfile[v])'
    BY DEF Attended, Lasts
  <2> DEFINE i == wfile[v]
  <2>1. v # w /\ wfile'[v] = i /\ i \in FileIds
    BY <1>1 DEF Inv, TypeOK
  <2>2. CASE data[i] = Complete
    <3>1. 1 .. at[v] \subseteq Complete
      BY LocalAssumption DEF Inv, TypeOK, Complete
    <3> QED
      BY <1>1, <2>1, <2>2, <3>1 DEF Lasts
  <2>3. CASE \E x \in Writers \ {w} : Lasts(x, i)
    <3>1. PICK x \in Writers \ {w} : Lasts(x, i)
      BY <2>3
    <3> QED
      BY <1>1, <1>4, <2>1, <3>1 DEF Lasts
  <2> QED
    BY <1>3, <2>1, <2>2, <2>3
<1>6. Healing'
  <2> SUFFICES ASSUME NEW k \in Keys, NEW i \in {tmp'[k], obj'[k]}, i # NoFile
               PROVE  data'[i] = Complete \/ \E v \in Writers : wfile'[v] = i
    BY DEF Healing, Complete
  <2>1. PICK l \in Keys : i \in {tmp[l], obj[l]}
    OBVIOUS
  <2>2. i \in FileIds
    BY <2>1 DEF Inv, TypeOK
  <2>3. data[i] = Complete \/ \E v \in Writers : wfile[v] = i
    BY <2>1 DEF Healing
  <2>4. data[i] = Complete \/ \E x \in Writers \ {w} : Lasts(x, i)
    BY <1>3, <2>2, <2>3
  <2> QED
    BY <1>1, <2>4 DEF Lasts
<1> QED
  BY <1>5, <1>6

LEMMA HealsStep == Inv /\ Heals /\ [Next]_vars => Heals'
<1> SUFFICES ASSUME Inv, Heals, [Next]_vars, faults' = 0 PROVE Attended' /\ Healing'
  BY DEF Heals
<1>a. faults \in Nat
  BY LocalAssumption DEF Inv, TypeOK
<1>1. ASSUME faults = 0, NEW w \in Writers, Replace(w) \/ ReplaceRaises(w)
      PROVE  Attended' /\ Healing'
  <2>1. Closed(w) /\ at[w] = Chunks /\ wfile[w] \in FileIds /\ wkey[w] \in Keys
    BY <1>1, LocalAssumption
    DEF Replace, ReplaceRaises, Close, Closed, Inv, TypeOK, Busy
  <2>2. \A k \in Keys : \A i \in {tmp'[k], obj'[k]} :
          i # NoFile => \E l \in Keys : i \in {tmp[l], obj[l]}
    <3>1. CASE Replace(w)
      BY <2>1, <3>1 DEF Replace, Inv, TypeOK
    <3>2. CASE ReplaceRaises(w)
      BY <3>2 DEF ReplaceRaises
    <3> QED
      BY <1>1, <3>1, <3>2
  <2> QED
    BY <1>1, <2>1, <2>2, DoneHeals DEF Heals
<1>2. ASSUME NEW w \in Writers, WriteFails(w) PROVE FALSE
  BY <1>2, <1>a DEF WriteFails
<1>3. ASSUME faults = 0, NEW k \in Keys, Delete(k) PROVE Attended' /\ Healing'
  BY <1>3 DEF Delete, Heals, writerVars, Attended, Healing, Lasts, Inv, TypeOK, Complete
<1>4. ASSUME Crash PROVE FALSE
  BY <1>4, <1>a DEF Crash
<1>5. ASSUME faults = 0, UNCHANGED vars PROVE Attended' /\ Healing'
  BY <1>5 DEF vars, Heals, writerVars, Attended, Healing, Lasts, Complete
<1>6. ASSUME NEW w \in Writers, NEW k \in Keys, OpenTmp(w, k) PROVE Attended' /\ Healing'
  <2>1. faults = 0
    BY <1>6 DEF OpenTmp
  <2> QED
    BY <1>6, <2>1, OpenHeals DEF Heals
<1>7. ASSUME NEW w \in Writers, WriteChunk(w) PROVE Attended' /\ Healing'
  <2>1. faults = 0
    BY <1>7 DEF WriteChunk
  <2> QED
    BY <1>7, <2>1, ChunkHeals DEF Heals
<1>8. ASSUME NEW w \in Writers, Replace(w) \/ ReplaceRaises(w) PROVE faults = 0
  BY <1>8 DEF Replace, ReplaceRaises
<1>9. ASSUME (\E k \in Keys : Delete(k)) \/ UNCHANGED vars PROVE faults = 0
  BY <1>9 DEF Delete, vars
<1> QED
  BY <1>1, <1>2, <1>3, <1>4, <1>5, <1>6, <1>7, <1>8, <1>9 DEF Next

\* However many puts of one key overlap, a torn object is one that somebody is
\* still writing, as long as every put runs to its end.
THEOREM TornHeals == Spec => []TornIsBeingWritten
<1>1. Init => Heals
  BY DEF Init, Heals, Attended, Healing
<1>2. Inv /\ Heals => TornIsBeingWritten
  BY DEF Heals, Healing, TornIsBeingWritten
<1> QED
  BY InitInv, InvStep, HealsStep, <1>1, <1>2, PTL DEF Spec
==============================================================================
