------------------------------ MODULE ScanView ------------------------------
(***************************************************************************)
(* The live table of one stage of a running scan                           *)
(* (ui/components/scanner/stage.go, update.go).                            *)
(*                                                                         *)
(* Workers of the engine append what they find to a batch; two goroutines  *)
(* send messages to the update loop, the ticker of the stage and the one   *)
(* that ends it, and each waits until the loop took its message.  The loop *)
(* merges the batch into the table whenever a message of the stage arrives. *)
(* A result is a record with a "key" (its address) and a "score".          *)
(***************************************************************************)
EXTENDS Naturals, Sequences, SequencesExt

CONSTANTS
  RawResults,    \* what the workers may find, each at most once
  MaxRow,        \* the rows the table keeps
  Unreadable     \* the results whose record the parser refuses

VARIABLES
  hits,          \* the results handed to the OnSuccess hook
  batch,         \* those the loop has not taken yet, in the order they came
  rows,          \* the rows of the table
  status,        \* waiting, scanning or ended
  sending,       \* what "ticker" and "closer" are sending
  closer         \* the steps of the executor's close

viewVars == <<hits, batch, rows, status, sending, closer>>

ViewInit ==
  /\ hits = {}
  /\ batch = <<>>
  /\ rows = <<>>
  /\ status = "waiting"
  /\ sending = [g \in {"ticker", "closer"} |-> "nothing"]
  /\ closer = "running"

(* cmpResult: the higher score first, then the smaller address. *)
Better(r, s) == r.score > s.score \/ (r.score = s.score /\ r.key < s.key)

(* A result that was written to a record and parsed again: the record keeps  *)
(* the score to two units; a record that cannot be read leaves the result.   *)
Normal(r) == IF r \in Unreadable THEN r ELSE [r EXCEPT !.score = @ - (@ % 2)]

SortedResults(s) == SortSeq(s, Better)

Cut(s, n) == SubSeq(s, 1, IF Len(s) < n THEN Len(s) ELSE n)

(* mergeSorted: of two sorted lists one, with at most "limit" results; on a  *)
(* tie those of the first list come first.                                  *)
RECURSIVE MergeSorted(_, _, _)
MergeSorted(a, b, limit) ==
  IF limit = 0 \/ (a = <<>> /\ b = <<>>) THEN <<>>
  ELSE IF b = <<>> \/ (a # <<>> /\ ~Better(Head(b), Head(a)))
  THEN <<Head(a)>> \o MergeSorted(Tail(a), b, limit - 1)
  ELSE <<Head(b)>> \o MergeSorted(a, Tail(b), limit - 1)

(* Mutant: the batch is sorted before its results are normalized. *)
MergedRaw(old, new) ==
  LET raw == SortedResults(new)
      sorted == Cut([i \in DOMAIN raw |-> Normal(raw[i])], MaxRow)
  IN  IF Len(old) >= MaxRow /\ ~Better(Head(sorted), Last(old))
      THEN old
      ELSE MergeSorted(old, sorted, MaxRow)

(* mergeBatch, on a batch that is not empty: normalized first, then sorted   *)
(* and cut; a full table no result can enter is left alone.                  *)
Merged(old, new) ==
  LET sorted == Cut(SortedResults([i \in DOMAIN new |-> Normal(new[i])]), MaxRow)
  IN  IF Len(old) >= MaxRow /\ ~Better(Head(sorted), Last(old))
      THEN old
      ELSE MergeSorted(old, sorted, MaxRow)

(* onEngineSuccess, in a worker. *)
Hit(r) ==
  /\ closer = "running"
  /\ r \notin hits
  /\ hits' = hits \cup {r}
  /\ batch' = Append(batch, r)
  /\ UNCHANGED <<rows, status, sending, closer>>

(* The ticker reports until it sees that the stage ends; a tick that is due  *)
(* may still win over the closed channel.                                    *)
Tick ==
  /\ sending["ticker"] = "nothing"
  /\ closer # "over"
  /\ sending' = [sending EXCEPT !["ticker"] = "progress"]
  /\ UNCHANGED <<hits, batch, rows, status, closer>>

(* engine/stage.go, close: after the workers, the last progress and then the *)
(* end of the stage.                                                        *)
CloseStep(from, to, message) ==
  /\ closer = from
  /\ sending["closer"] = "nothing"
  /\ closer' = to
  /\ sending' = [sending EXCEPT !["closer"] = message]
  /\ UNCHANGED <<hits, batch, rows, status>>

CloseStage ==
  \/ CloseStep("running", "progress", "progress")
  \/ CloseStep("progress", "end", "end")
  \/ CloseStep("end", "over", "nothing")

(* scanner/update.go: stageProgressMsg and stageEndMsg both merge the batch. *)
Receive(g) ==
  /\ sending[g] # "nothing"
  /\ rows' = IF batch = <<>> THEN rows ELSE Merged(rows, batch)
  /\ batch' = <<>>
  /\ status' = IF sending[g] = "end" THEN "ended"
               ELSE IF status = "waiting" THEN "scanning" ELSE status
  /\ sending' = [sending EXCEPT ![g] = "nothing"]
  /\ UNCHANGED <<hits, closer>>

ViewNext ==
  \/ \E r \in RawResults : Hit(r)
  \/ Tick
  \/ CloseStage
  \/ \E g \in DOMAIN sending : Receive(g)

(* What the table should show of a set of results. *)
Best(s) ==
  Cut(SetToSortSeq({Normal(r) : r \in s}, Better), MaxRow)

(* The table always shows the best of everything it was given, in whatever   *)
(* batches and after whatever messages it came, and the message that ends    *)
(* the stage leaves nothing behind (stage.go, mergeBatch; update.go,         *)
(* stageEndMsg).                                                            *)
TableShowsBest ==
  /\ rows = Best(hits \ ToSet(batch))
  /\ status = "ended" => batch = <<>> /\ closer \in {"end", "over"}
=============================================================================
