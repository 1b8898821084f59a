------------------------------- MODULE IPImport -------------------------------
(* Importing a list of addresses (iplist/loader.go): a small file is copied   *)
(* row by row against a map of the prefixes seen, a large one is sorted first *)
(* (fileutil/sort.go, in memory or by merging sorted chunks on disk) and then *)
(* copied without the rows that repeat their predecessor.                     *)
(* A line is its place in the order of texts and what it parses to: several   *)
(* texts stand for one prefix (the host bits of a range are masked away), and *)
(* a comment or an unreadable line parses to no row.                          *)
EXTENDS Naturals, Sequences, FiniteSets, SequencesExt

CONSTANTS
    Files,          \* the files a user may pick: sequences of lines
    NoRow,          \* what an unreadable line parses to
    ChunkLines      \* lines in a chunk of the external sort

\* What a line parses to, unless it is NoRow.
ListRow == [start : Nat, hostBits : Nat, on : BOOLEAN]
FileLine == [text : Nat, row : ListRow \union {NoRow}]

ASSUME ImportAssumption ==
    /\ ChunkLines \in Nat \ {0}
    /\ NoRow \notin ListRow
    /\ \A f \in Files : f \in Seq(FileLine)

VARIABLES
    src,            \* the lines of the picked file
    size,           \* its size class: below both limits, between them, above
    ipc,            \* where the import is
    next,           \* the next line of the file being read
    chunks,         \* sorted chunks that are not merged yet
    sorted,         \* the temporary file
    last,           \* the rows already written, as far as the strategy knows
    dst             \* the rows of the list file

importVars == <<src, size, ipc, next, chunks, sorted, last, dst>>

Prefix(r) == [start |-> r.start, hostBits |-> r.hostBits]
Sizes == {"small", "middle", "large"}
Before(a, b) == a.text < b.text
\* The lines in the order of their texts; equal texts are equal lines.
SortLines(lines) ==
    {s \in {[i \in DOMAIN lines |-> lines[p[i]]] : p \in Bijection(DOMAIN lines, DOMAIN lines)} :
        \A i, j \in DOMAIN lines : i < j => ~Before(s[j], s[i])}

ImportInit ==
    /\ src \in Files /\ size \in Sizes
    /\ ipc = "start" /\ next = 1
    /\ chunks = <<>> /\ sorted = <<>> /\ last = {} /\ dst = <<>>

\* ImportIPList and SortFile choose by size.
Start ==
    /\ ipc = "start"
    /\ ipc' = CASE size = "small"  -> "map"
                [] size = "middle" -> "sort"
                [] size = "large"  -> "split"
    /\ UNCHANGED <<src, size, next, chunks, sorted, last, dst>>

\* Masked and seen before: nothing is written.
MapRow ==
    /\ ipc = "map" /\ next <= Len(src)
    /\ LET r == src[next].row
       IN  IF r = NoRow \/ Prefix(r) \in last
           THEN UNCHANGED <<last, dst>>
           ELSE /\ last' = last \union {Prefix(r)}
                /\ dst' = Append(dst, r)
    /\ next' = next + 1
    /\ UNCHANGED <<src, size, ipc, chunks, sorted>>

SortInMemory ==
    /\ ipc = "sort"
    /\ sorted' \in SortLines(src)
    /\ ipc' = "dedupe"
    /\ UNCHANGED <<src, size, next, chunks, last, dst>>

SplitChunkDropsRemainder ==
    /\ ipc = "split" /\ next <= Len(src)
    /\ IF next + ChunkLines - 1 <= Len(src)
       THEN \E s \in SortLines(SubSeq(src, next, next + ChunkLines - 1)) :
               chunks' = Append(chunks, s)
       ELSE UNCHANGED chunks
    /\ next' = next + ChunkLines
    /\ UNCHANGED <<src, size, ipc, sorted, last, dst>>

\* splitAndSort fills a chunk, or takes the remainder as the last one.
SplitChunk ==
    /\ ipc = "split" /\ next <= Len(src)
    /\ LET end == IF next + ChunkLines - 1 < Len(src) THEN next + ChunkLines - 1
                                                       ELSE Len(src)
       IN  /\ \E s \in SortLines(SubSeq(src, next, end)) : chunks' = Append(chunks, s)
           /\ next' = end + 1
    /\ UNCHANGED <<src, size, ipc, sorted, last, dst>>

EndSplit ==
    /\ ipc = "split" /\ next > Len(src)
    /\ ipc' = "merge"
    /\ UNCHANGED <<src, size, next, chunks, sorted, last, dst>>

\* mergeChunks: one of the smallest heads leaves the heap, and its chunk
\* offers the next one.
MergePop ==
    /\ ipc = "merge"
    /\ \E i \in DOMAIN chunks :
        /\ chunks[i] # <<>>
        /\ \A j \in DOMAIN chunks :
            chunks[j] # <<>> => ~Before(Head(chunks[j]), Head(chunks[i]))
        /\ sorted' = Append(sorted, Head(chunks[i]))
        /\ chunks' = [chunks EXCEPT ![i] = Tail(@)]
    /\ UNCHANGED <<src, size, ipc, next, last, dst>>

EndMerge ==
    /\ ipc = "merge" /\ \A i \in DOMAIN chunks : chunks[i] = <<>>
    /\ ipc' = "dedupe" /\ next' = 1
    /\ UNCHANGED <<src, size, chunks, sorted, last, dst>>

\* Only the row before is compared.
DedupeRow ==
    /\ ipc = "dedupe" /\ next <= Len(sorted)
    /\ LET r == sorted[next].row
       IN  IF r = NoRow \/ Prefix(r) \in last
           THEN UNCHANGED <<last, dst>>
           ELSE /\ last' = {Prefix(r)}
                /\ dst' = Append(dst, r)
    /\ next' = next + 1
    /\ UNCHANGED <<src, size, ipc, chunks, sorted>>

Imported ==
    /\ \/ ipc = "map" /\ next > Len(src)
       \/ ipc = "dedupe" /\ next > Len(sorted)
    /\ ipc' = "imported"
    /\ UNCHANGED <<src, size, next, chunks, sorted, last, dst>>

\* A read, a write or the sort fails: what was written so far stays behind.
ImportFails ==
    /\ ipc \in {"map", "sort", "split", "merge", "dedupe"}
    /\ ipc' = "failed"
    /\ UNCHANGED <<src, size, next, chunks, sorted, last, dst>>

ImportStep ==
    \/ Start \/ MapRow \/ SortInMemory \/ SplitChunk \/ EndSplit
    \/ MergePop \/ EndMerge \/ DedupeRow \/ Imported

ImportSpec == ImportInit /\ [][ImportStep \/ ImportFails]_importVars

----------------------------------------------------------------------------
(* Properties *)

SourceRows == {src[i].row : i \in DOMAIN src} \ {NoRow}

\* Whatever strategy the size of the file selects, the list that results has
\* the prefixes of the file, all of them and no others (loader.go:41-62,
\* sort.go: splitAndSort, mergeChunks).
NothingLost ==
    ipc = "imported" => {Prefix(dst[i]) : i \in DOMAIN dst} = {Prefix(r) : r \in SourceRows}
=============================================================================
