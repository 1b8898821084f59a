----------------------------- MODULE ResultMerge -----------------------------
(***************************************************************************)
(* The merge of a batch of results into the result file (mergeResults in   *)
(* internal/core/result/merger.go, with utils.go and replace_unix.go).     *)
(*                                                                         *)
(* The batch is sorted and freed of duplicates, merged with the file into  *)
(* a temporary file in one pass over both, and the temporary file replaces *)
(* the old one.  Every step can fail, and the program can die after each.  *)
(* The loop of the writer makes one merge after the other.                 *)
(*                                                                         *)
(* Of a result only its key and its latency matter; keys are numbers, in   *)
(* the order of strings.Compare, latencies are tenths of a millisecond     *)
(* below a second.  The score is 1000 divided by the whole milliseconds,   *)
(* so it is compared through them.                                         *)
(***************************************************************************)
EXTENDS Naturals, FiniteSets, SequencesExt, Retain

CONSTANTS Keys,       \* addresses
          Latencies,  \* measured latencies, in tenths of a millisecond
          Rounds,     \* the parser of the schema rounds to milliseconds
          NoFile,     \* there is no file under a path
          BatchSize,  \* bound: results in a batch
          MaxMerges   \* bound: batches merged

ASSUME KeysAssumption == Keys \subseteq Nat /\ IsFiniteSet(Keys)
ASSUME LatenciesAssumption == Latencies \subseteq 1..9999
ASSUME RoundsAssumption == Rounds \in BOOLEAN

(* A result, and a record of the file: the parser rounds to milliseconds. *)
Result == [key : Keys, latency : Latencies]
Record == [key : Keys, latency : Latencies \cup {10 * n : n \in 1..1000}]

ASSUME NoFileAssumption == NoFile \notin Seq(Record) /\ NoFile \notin Nat

VARIABLES pc,        \* the next step of the running merge, "idle" or "dead"
          delta,     \* its batch, sorted and without duplicates
          pass,      \* its pass over the file and the batch
          file,      \* what the path of the result file names, or NoFile
          tmp,       \* what the path of the temporary file names, or NoFile
          synced,    \* the temporary file is on disk as a whole
          survivors, \* what a crash may leave of the result file
          merges,    \* batches taken so far
          offered,   \* history: the results of the running merge
          merged     \* history: the results of merges that returned nil

mergeVars ==
    <<pc, delta, pass, file, tmp, synced, survivors, merges, offered, merged>>

Content(f) == IF f = NoFile THEN <<>> ELSE f

(* The next record of the file, the next of the batch (cursor), the batch's *)
(* records that are written or crossed out, and what is written.            *)
NewPass == [next |-> 1, cursor |-> 1, emitted |-> {}, out |-> <<>>]

MergeInit ==
    /\ pc = "idle"
    /\ delta = <<>>
    /\ pass = NewPass
    /\ file = NoFile
    /\ tmp = NoFile
    /\ synced = FALSE
    /\ survivors = {NoFile}
    /\ merges = 0
    /\ offered = {} /\ merged = {}

-----------------------------------------------------------------------------
(* Records and scores *)

(* Score uses whole milliseconds and takes less than one for one. *)
Ms(r) == IF r.latency < 10 THEN 1 ELSE r.latency \div 10

Better(a, b) == Ms(a) < Ms(b)

(***************************************************************************)
(* What the parser of the schema makes of the record: TCP, ICMP, HTTP,     *)
(* Xray and resolve results have their latency rounded to milliseconds, at *)
(* least one.                                                              *)
(***************************************************************************)
Parse(r) ==
    IF Rounds
      THEN [r EXCEPT !.latency = IF @ < 10 THEN 10 ELSE 10 * ((@ + 5) \div 10)]
      ELSE r

-----------------------------------------------------------------------------
(* The batch *)

SortedBatch(s) ==
    \A i, j \in DOMAIN s :
        i < j => \/ Better(s[i], s[j])
                 \/ Ms(s[i]) = Ms(s[j]) /\ s[i].key <= s[j].key

(* The first, and so the best, record of each key is kept. *)
Dedupe(s) ==
    Retain(s, {i \in DOMAIN s : \A j \in DOMAIN s : j < i => s[j].key # s[i].key})

(* The sort is not stable: equal scores of one key come in any order. *)
Prepared(batch) ==
    {Dedupe(s) : s \in {t \in Bijection(1..Cardinality(batch), batch) : SortedBatch(t)}}

-----------------------------------------------------------------------------
(* mergeWithExisting: one pass over the file, with a cursor in the batch *)

Existing(n) == Parse(Content(file)[n])

InFile == pass.next <= Len(Content(file))

InBatch == pass.cursor <= Len(delta)

(* The record of the batch with that key, if there is one (holds). *)
Held(key) == {i \in DOMAIN delta : delta[i].key = key}

(* emitDelta: a record that was written or crossed out is left out. *)
EmitDelta(m, i) ==
    [m EXCEPT !.emitted = @ \cup {i},
              !.out = IF i \in m.emitted THEN @ ELSE Append(@, delta[i])]

(***************************************************************************)
(* One turn of the loop that moves the cursor: the records of the batch    *)
(* that are better than the next one of the file, and in the end the rest. *)
(* Without a file (writeResults) that is the whole batch.                  *)
(***************************************************************************)
EmitNext ==
    /\ pc = "write"
    /\ InBatch
    /\ InFile => Better(delta[pass.cursor], Existing(pass.next))
    /\ pass' = [EmitDelta(pass, pass.cursor) EXCEPT !.cursor = @ + 1]
    /\ UNCHANGED <<pc, delta, file, tmp, synced, survivors, merges, offered, merged>>

(* Mutant: a record that lost against the existing one is not crossed out. *)
KeepOrReplaceForgets(m, e) ==
    IF \E i \in Held(e.key) : Better(delta[i], e)
      THEN m
      ELSE [m EXCEPT !.out = Append(@, e)]

(* An existing record, to which no better one of the batch comes first: it  *)
(* is replaced by a better one of its key, or that one is crossed out.      *)
KeepOrReplace(m, e) ==
    IF \E i \in Held(e.key) : Better(delta[i], e)
      THEN EmitDelta(m, CHOOSE i \in Held(e.key) : Better(delta[i], e))
      ELSE [m EXCEPT !.emitted = @ \cup Held(e.key), !.out = Append(@, e)]

TakeExisting ==
    /\ pc = "write"
    /\ InFile
    /\ InBatch => ~Better(delta[pass.cursor], Existing(pass.next))
    /\ pass' = [KeepOrReplace(pass, Existing(pass.next)) EXCEPT !.next = @ + 1]
    /\ UNCHANGED <<pc, delta, file, tmp, synced, survivors, merges, offered, merged>>

-----------------------------------------------------------------------------
(* mergeResults, step by step *)

Fail ==
    /\ pc' = "idle"
    /\ delta' = <<>>
    /\ offered' = {}

Begin(batch) ==
    /\ pc = "idle"
    /\ merges < MaxMerges
    /\ merges' = merges + 1
    /\ delta' \in Prepared(batch)
    /\ offered' = batch
    /\ pc' = "create"
    /\ UNCHANGED <<pass, file, tmp, synced, survivors, merged>>

(* os.Create truncates what an earlier merge left there; empty stands for *)
(* every unfinished content. *)
CreateTemp ==
    /\ pc = "create"
    /\ \/ /\ tmp' = <<>>
          /\ synced' = FALSE
          /\ pc' = "write"
          /\ UNCHANGED <<delta, offered>>
       \/ /\ Fail
          /\ UNCHANGED <<tmp, synced>>
    /\ UNCHANGED <<pass, file, survivors, merges, merged>>

(* Everything is written: the buffers are flushed (finalizeFile). *)
WriteTemp ==
    /\ pc = "write"
    /\ ~InFile /\ ~InBatch
    /\ tmp' = pass.out
    /\ pass' = NewPass
    /\ pc' = "sync"
    /\ UNCHANGED <<delta, file, synced, survivors, merges, offered, merged>>

(* Reading, writing or flushing fails, with any part written. *)
WriteFails ==
    /\ pc = "write"
    /\ Fail
    /\ tmp' = NoFile
    /\ pass' = NewPass
    /\ UNCHANGED <<file, synced, survivors, merges, merged>>

(* Mutant: the temporary file is not synced before it replaces the other. *)
SyncTempSkipped ==
    /\ pc = "sync"
    /\ pc' = "close"
    /\ UNCHANGED <<delta, pass, file, tmp, synced, survivors, merges, offered, merged>>

SyncTemp ==
    /\ pc = "sync"
    /\ \/ /\ synced' = TRUE
          /\ pc' = "close"
          /\ UNCHANGED <<delta, tmp, offered>>
       \/ /\ Fail
          /\ tmp' = NoFile
          /\ UNCHANGED synced
    /\ UNCHANGED <<pass, file, survivors, merges, merged>>

(* success is set already: a failing Close leaves the temporary file. *)
CloseTemp ==
    /\ pc = "close"
    /\ \/ pc' = "replace" /\ UNCHANGED <<delta, offered>>
       \/ Fail
    /\ UNCHANGED <<pass, file, tmp, synced, survivors, merges, merged>>

(***************************************************************************)
(* replaceFile.  After the rename a crash may still leave the old file, or *)
(* the new one, with all of its content only if that was synced.           *)
(***************************************************************************)
Replace ==
    /\ pc = "replace"
    /\ tmp' = NoFile
    /\ \/ /\ file' = tmp
          /\ survivors' = survivors \cup {tmp}
                            \cup (IF synced THEN {} ELSE {<<>>})
          /\ pc' = "syncdir"
          /\ UNCHANGED <<delta, offered>>
       \/ /\ Fail
          /\ UNCHANGED <<file, survivors>>
    /\ UNCHANGED <<pass, synced, merges, merged>>

(* Mutant: an error of the directory's sync is swallowed. *)
SyncDirIgnored ==
    /\ pc = "syncdir"
    /\ \/ survivors' = {file}
       \/ UNCHANGED survivors
    /\ merged' = merged \cup offered
    /\ Fail
    /\ UNCHANGED <<pass, file, tmp, synced, merges>>

(* If it fails the merge fails, although the file has been replaced. *)
SyncDir ==
    /\ pc = "syncdir"
    /\ \/ survivors' = {file} /\ merged' = merged \cup offered
       \/ UNCHANGED <<survivors, merged>>
    /\ Fail
    /\ UNCHANGED <<pass, file, tmp, synced, merges>>

(* The program dies; the next scan writes to a file of its own. *)
Crash ==
    /\ pc # "dead"
    /\ pc' = "dead"
    /\ file' \in survivors
    /\ survivors' = {file'}
    /\ UNCHANGED <<delta, pass, tmp, synced, merges, offered, merged>>

MergeNext ==
    \/ \E batch \in SUBSET Result :
         batch # {} /\ Cardinality(batch) <= BatchSize /\ Begin(batch)
    \/ CreateTemp \/ EmitNext \/ TakeExisting \/ WriteTemp \/ WriteFails
    \/ SyncTemp \/ CloseTemp \/ Replace \/ SyncDir
    \/ Crash

MergeSpec == MergeInit /\ [][MergeNext]_mergeVars

-----------------------------------------------------------------------------
(***************************************************************************)
(* The file is "Sorted output by score (descending)" with "Duplicate       *)
(* replacement by Key()" (merger.go:19), merge after merge, although each  *)
(* pass trusts the order that the pass before it left.                     *)
(***************************************************************************)
FileSorted ==
    LET f == Content(file)
    IN \A i, j \in DOMAIN f :
         i < j => ~Better(f[j], f[i]) /\ f[i].key # f[j].key

(***************************************************************************)
(* Once a merge has returned nil its results stay: the file, and what any  *)
(* crash would leave of it, has a record of the same key that is at least  *)
(* as good.                                                                *)
(***************************************************************************)
BestKept ==
    \A f \in survivors \cup {file} : \A r \in merged :
        \E i \in DOMAIN Content(f) :
            Content(f)[i].key = r.key /\ ~Better(r, Content(f)[i])

(* The best latency of each key in a file. *)
BestOf(f) ==
    [k \in Keys |->
        LET ms == {Ms(f[i]) : i \in {n \in DOMAIN f : f[n].key = k}}
        IN IF ms = {} THEN NoFile ELSE CHOOSE x \in ms : \A y \in ms : x <= y]

(* The file is a dictionary that absorbs whole batches ("Atomic file       *)
(* replacement", merger.go:22).                                            *)
Store == INSTANCE ResultStore WITH
            Latencies <- {Ms(r) : r \in Result}, None <- NoFile,
            best <- BestOf(Content(file)),
            kept <- {BestOf(Content(f)) : f \in survivors}

KeepsStore == Store!Spec
=============================================================================
