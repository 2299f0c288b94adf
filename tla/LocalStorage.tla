---------------------------- MODULE LocalStorage ----------------------------
(***************************************************************************)
(* The local storage backend, backend/app/storage/local.py: put writes a   *)
(* temporary file beside the object and renames it over the object.  Puts  *)
(* run in a thread pool, so two of them interleave between any two system  *)
(* calls, and the process may die between any two.                         *)
(*                                                                         *)
(* A key determines the bytes under it (it is their digest), so a file is  *)
(* the set of its chunks that are in place; a chunk that is not was never  *)
(* written, or is a hole below one that was.  Names and the files they     *)
(* name are kept apart, as the file system keeps them: a writer goes on    *)
(* writing to the file it opened, whatever that file is called by then.    *)
(***************************************************************************)
EXTENDS Integers, FiniteSets

CONSTANTS
  Keys,        \* storage keys
  NoKey,       \* what an idle writer writes
  Writers,     \* threads of the pool
  Chunks,      \* a file is written in this many pieces
  MaxFaults    \* bound: failed writes and process crashes

ASSUME LocalAssumption ==
  /\ NoKey \notin Keys
  /\ IsFiniteSet(Keys) /\ IsFiniteSet(Writers)
  /\ Chunks \in Nat /\ MaxFaults \in Nat

VARIABLES
  tmp,         \* tmp[k]: the file named k.tmp, or NoFile
  obj,         \* obj[k]: the file named k, or NoFile
  data,        \* data[i]: the chunks in place in file i
  wpc,         \* where each writer is: "idle", "writing"
  wkey, wfile, \* the key it puts and the file it has open
  at,          \* the chunks it has written
  faults,      \* faults so far
  shared       \* history: the keys that two puts ever wrote at the same time

writerVars == <<wpc, wkey, wfile, at>>
vars == <<tmp, obj, data, writerVars, faults, shared>>

\* Two names per key and one open file per writer: never short of a file.
NoFile  == 0
FileIds == 1 .. 2 * Cardinality(Keys) + Cardinality(Writers)
Complete == 1 .. Chunks

Named(i) == \E k \in Keys : tmp[k] = i \/ obj[k] = i
Free == {i \in FileIds : ~Named(i) /\ \A w \in Writers : wfile[w] # i}
Fresh == CHOOSE i \in FileIds : i \in Free

Init ==
  /\ tmp = [k \in Keys |-> NoFile]
  /\ obj = [k \in Keys |-> NoFile]
  /\ data = [i \in FileIds |-> {}]
  /\ wpc = [w \in Writers |-> "idle"]
  /\ wkey = [w \in Writers |-> NoKey]
  /\ wfile = [w \in Writers |-> NoFile]
  /\ at = [w \in Writers |-> 0]
  /\ faults = 0
  /\ shared = {}

\* The writer has opened file i to put key k, which empties the file.
Opens(w, k, i) ==
  /\ wpc[w] = "idle"
  /\ data' = [data EXCEPT ![i] = {}]
  /\ wpc' = [wpc EXCEPT ![w] = "writing"]
  /\ wkey' = [wkey EXCEPT ![w] = k]
  /\ wfile' = [wfile EXCEPT ![w] = i]
  /\ at' = [at EXCEPT ![w] = 0]
  /\ shared' = IF \E v \in Writers : wkey[v] = k THEN shared \cup {k} ELSE shared

\* The put is over: the descriptor is closed.
Close(w) ==
  /\ wpc' = [wpc EXCEPT ![w] = "idle"]
  /\ wkey' = [wkey EXCEPT ![w] = NoKey]
  /\ wfile' = [wfile EXCEPT ![w] = NoFile]
  /\ at' = [at EXCEPT ![w] = 0]

-----------------------------------------------------------------------------
\* tmp.write_bytes opens k.tmp: a file that is there, left by a crash or being
\* written by another thread, is truncated.
OpenInPlace(w, k) ==     \* mutant: the object is written under its own name
  /\ LET i == IF obj[k] # NoFile THEN obj[k] ELSE Fresh
     IN  /\ Opens(w, k, i)
         /\ obj' = [obj EXCEPT ![k] = i]
         /\ tmp' = [tmp EXCEPT ![k] = i]
  /\ UNCHANGED faults
OpenTmp(w, k) ==
  /\ LET i == IF tmp[k] # NoFile THEN tmp[k] ELSE Fresh
     IN  /\ Opens(w, k, i)
         /\ tmp' = [tmp EXCEPT ![k] = i]
  /\ UNCHANGED <<obj, faults>>

\* ... and writes the chunks at its own offset.
WritePastEnd(w) ==       \* mutant: the end of the data is not noticed
  /\ wpc[w] = "writing"
  /\ at' = [at EXCEPT ![w] = @ + 1]
  /\ data' = [data EXCEPT ![wfile[w]] = @ \cup {at[w] + 1}]
  /\ UNCHANGED <<tmp, obj, wpc, wkey, wfile, faults, shared>>
WriteChunk(w) ==
  /\ wpc[w] = "writing"
  /\ at[w] < Chunks
  /\ at' = [at EXCEPT ![w] = @ + 1]
  /\ data' = [data EXCEPT ![wfile[w]] = @ \cup {at[w] + 1}]
  /\ UNCHANGED <<tmp, obj, wpc, wkey, wfile, faults, shared>>

\* tmp.replace(path): the name k.tmp is looked up again.
ReplaceShort(w) ==       \* mutant: a short write is taken for a whole one
  /\ wpc[w] = "writing"
  /\ at[w] >= 1
  /\ tmp[wkey[w]] # NoFile
  /\ obj' = [obj EXCEPT ![wkey[w]] = tmp[wkey[w]]]
  /\ tmp' = [tmp EXCEPT ![wkey[w]] = NoFile]
  /\ Close(w)
  /\ UNCHANGED <<data, faults, shared>>
Replace(w) ==
  /\ wpc[w] = "writing"
  /\ at[w] = Chunks
  /\ tmp[wkey[w]] # NoFile
  /\ obj' = [obj EXCEPT ![wkey[w]] = tmp[wkey[w]]]
  /\ tmp' = [tmp EXCEPT ![wkey[w]] = NoFile]
  /\ Close(w)
  /\ UNCHANGED <<data, faults, shared>>

\* FileNotFoundError: k.tmp has been renamed away.  The put raises.
ReplaceRaises(w) ==
  /\ wpc[w] = "writing"
  /\ at[w] = Chunks
  /\ tmp[wkey[w]] = NoFile
  /\ Close(w)
  /\ UNCHANGED <<tmp, obj, data, faults, shared>>

\* A write fails (the disk is full): the put raises and k.tmp stays behind.
WriteFails(w) ==
  /\ wpc[w] = "writing"
  /\ at[w] < Chunks
  /\ faults < MaxFaults
  /\ faults' = faults + 1
  /\ Close(w)
  /\ UNCHANGED <<tmp, obj, data, shared>>

\* delete: unlink(missing_ok=True).
DeleteGlob(k) ==         \* mutant: the temporary file is unlinked as well
  /\ obj[k] # NoFile
  /\ obj' = [obj EXCEPT ![k] = NoFile]
  /\ tmp' = [tmp EXCEPT ![k] = NoFile]
  /\ UNCHANGED <<data, writerVars, faults, shared>>
Delete(k) ==
  /\ obj[k] # NoFile
  /\ obj' = [obj EXCEPT ![k] = NoFile]
  /\ UNCHANGED <<tmp, data, writerVars, faults, shared>>

\* The process dies: what has been written stays.
Crash ==
  /\ faults < MaxFaults
  /\ faults' = faults + 1
  /\ wpc' = [w \in Writers |-> "idle"]
  /\ wkey' = [w \in Writers |-> NoKey]
  /\ wfile' = [w \in Writers |-> NoFile]
  /\ at' = [w \in Writers |-> 0]
  /\ UNCHANGED <<tmp, obj, data, shared>>

Next ==
  \/ \E w \in Writers :
       \/ \E k \in Keys : OpenTmp(w, k)
       \/ WriteChunk(w) \/ WriteFails(w)
       \/ Replace(w) \/ ReplaceRaises(w)
  \/ \E k \in Keys : Delete(k)
  \/ Crash

Spec == Init /\ [][Next]_vars

-----------------------------------------------------------------------------
(* Properties.                                                             *)

\* Every variable ranges over names, files and chunks.
TypeOK ==
  /\ tmp \in [Keys -> FileIds \cup {NoFile}]
  /\ obj \in [Keys -> FileIds \cup {NoFile}]
  /\ data \in [FileIds -> SUBSET Complete]
  /\ wpc \in [Writers -> {"idle", "writing"}]
  /\ wkey \in [Writers -> Keys \cup {NoKey}]
  /\ wfile \in [Writers -> FileIds \cup {NoFile}]
  /\ at \in [Writers -> 0 .. Chunks]
  /\ faults \in 0 .. MaxFaults
  /\ shared \subseteq Keys

\* What is stored under a key is all of it (local.py:40): at no moment, and so
\* after no crash, does the name of an object name a truncated file, unless two
\* puts of the key have overlapped.
UnsharedIsComplete ==
  \A k \in Keys \ shared : obj[k] # NoFile => data[obj[k]] = Complete

\* Even then, as long as no put is cut short, a torn object is one that
\* somebody is still writing: it heals.
TornIsBeingWritten ==
  faults = 0 =>
    \A k \in Keys : obj[k] # NoFile /\ data[obj[k]] # Complete
                      => \E w \in Writers : wfile[w] = obj[k]

\* A put raises only when another put of its key has overlapped it: alone, a
\* writer finds its own file under the temporary name until it renames it.
TmpIsMine ==
  \A w \in Writers :
    wpc[w] = "writing" /\ wkey[w] \notin shared => tmp[wkey[w]] = wfile[w]
=============================================================================
