------------------------------- MODULE IPStream -------------------------------
(* The stream of addresses that feeds a scan (iplist/parser.go, shuffle.go,   *)
(* loader.go): the enabled rows of a list, expanded in order or visited in a  *)
(* pseudo-random order by a generator over a ring of a power of two.          *)
(* Addresses are numbers; a row is a range of 2^hostBits of them, and a row   *)
(* with no host bits is a single address.  The code's 64-bit words have       *)
(* RingBits bits here: counts saturate, and lists that do not fit are cut     *)
(* down to quotas, at that width.                                             *)
EXTENDS Integers, Sequences, FiniteSets, SequencesExt

CONSTANTS
    RingBits,       \* width of the counters and of the generator's state
    DigitBits,      \* width of the digits of an address (a byte in the code)
    Digits,         \* number of digits of an address
    StreamLimits    \* limits of addresses a scan may have; 0 is no limit

ASSUME StreamAssumption ==
    /\ RingBits \in 1..12
    /\ DigitBits \in Nat \ {0} /\ Digits \in Nat \ {0}
    /\ StreamLimits \subseteq Nat

VARIABLES
    list,           \* the rows of the file being streamed
    limit,          \* the limit of this stream, 0 already replaced
    spc,            \* where the stream is
    index,          \* MasterIndexer: blocks, singles and their totals
    ring,           \* size of the generator's ring
    state,          \* the generator's state
    dispatched,     \* indices dealt with
    row, curr,      \* sequential order: the row and the next address in it
    out             \* addresses sent, in order

streamVars == <<list, limit, spc, index, ring, state, dispatched, row, curr, out>>

MaxWord == 2^RingBits - 1
Row == [start : Nat, hostBits : Nat, on : BOOLEAN]
IsSingle(r) == r.hostBits = 0
Size(r) == 2^r.hostBits
Addresses(r) == r.start .. r.start + Size(r) - 1
Active(l) == SelectSeq(l, LAMBDA r : r.on)
Smaller(a, b) == IF a < b THEN a ELSE b
SumOver(f(_), s) ==
    LET sum[i \in 0..Len(s)] == IF i = 0 THEN 0 ELSE sum[i - 1] + f(s[i]) IN sum[Len(s)]
Total(l) == SumOver(Size, Active(l))
Fits(l) == Total(l) <= MaxWord

----------------------------------------------------------------------------
(* Counts and addresses *)

\* The sum wraps around; it is then smaller than what was added to.
SaturatingAdd(a, b) ==
    LET result == (a + b) % 2^RingBits IN IF result < a THEN MaxWord ELSE result

CountIPEntry(r) == IF r.hostBits >= RingBits THEN MaxWord ELSE Size(r)

CountActiveIPs(l) ==
    LET count[i \in 0..Len(l)] ==
            IF i = 0 THEN 0
            ELSE IF l[i].on THEN SaturatingAdd(count[i - 1], CountIPEntry(l[i]))
                            ELSE count[i - 1]
    IN  count[Len(l)]

Base == 2^DigitBits

\* addOffsetToAddr: from the last digit on, each digit takes a digit of the
\* carry, and what is left of the carry and of the sum is handed on.
AddOffset(addr, offset) ==
    LET digit(n, i) == (n \div Base^i) % Base
        carry[i \in 0..Digits] ==
            IF i = 0 THEN offset
            ELSE (carry[i - 1] \div Base)
                    + ((digit(addr, i - 1) + (carry[i - 1] % Base)) \div Base)
        value[i \in 0..Digits] ==
            IF i = 0 THEN 0
            ELSE value[i - 1]
                    + ((digit(addr, i - 1) + (carry[i - 1] % Base)) % Base) * Base^(i - 1)
    IN  value[Digits]

----------------------------------------------------------------------------
(* The index of the shuffled order *)

\* What a row contributes: all of it if the list fits, else its share.
Quota(total, r) == IF total <= MaxWord THEN Size(r) ELSE (Size(r) * MaxWord) \div total

\* The rows that contribute, ranges apart from single addresses.
Indexed(l) ==
    LET total == Total(l)
        kept == SelectSeq(Active(l), LAMBDA r : Quota(total, r) > 0)
        some(single) == SelectSeq(kept, LAMBDA r : IsSingle(r) = single)
        quotas(s) == [i \in DOMAIN s |-> [start |-> s[i].start, size |-> Size(s[i]),
                                          quota |-> Quota(total, s[i])]]
    IN  [cidrs |-> quotas(some(FALSE)), singles |-> quotas(some(TRUE))]

\* The random offsets at which the blocks may start (randBigIntBelow).
OffsetChoices(blocks) ==
    {f \in [DOMAIN blocks -> 0..MaxWord] :
        \A i \in DOMAIN blocks : f[i] = 0 \/ f[i] < blocks[i].size - blocks[i].quota}

NewMasterIndexer(rows, offsets) ==
    LET b == rows.cidrs
        first[i \in 1..Len(b) + 1] == IF i = 1 THEN 0 ELSE first[i - 1] + b[i - 1].quota
        cidrs == first[Len(b) + 1]
    IN  [blocks  |-> [i \in DOMAIN b |-> [start |-> AddOffset(b[i].start, offsets[i]),
                                          total |-> b[i].quota, first |-> first[i]]],
         singles |-> [i \in DOMAIN rows.singles |-> rows.singles[i].start],
         cidrs   |-> cidrs,
         grand   |-> SaturatingAdd(cidrs, Len(rows.singles))]

\* getIPFromCIDRBlocks: the last block that starts at or before g.
BinarySearch(blocks, g) ==
    LET search[low \in 1..Len(blocks) + 1, high \in 0..Len(blocks)] ==
            IF low > high THEN high
            ELSE LET mid == (low + high) \div 2
                 IN  IF blocks[mid].first <= g THEN search[mid + 1, high]
                                               ELSE search[low, mid - 1]
    IN  search[1, Len(blocks)]

AddressAt(ix, g) ==
    IF g < ix.cidrs
    THEN LET b == ix.blocks[BinarySearch(ix.blocks, g)]
         IN  AddOffset(b.start, g - b.first)
    ELSE ix.singles[g - ix.cidrs + 1]

\* The low twelve bits of Knuth's multiplier and increment; the generator
\* modulo a power of two depends on no others.
LcgA == 3885
LcgC == 335
NextStateNoIncrement(s, m) == (s * LcgA) % m
NextStateEven(s, m) == (s * LcgA + LcgC - 1) % m
NextState(s, m) == (s * LcgA + LcgC) % m

\* The whole ring for more than half of it, else the next power of two.
RingFor(grand) ==
    IF grand > 2^(RingBits - 1) THEN 2^RingBits
    ELSE CHOOSE m \in {2^k : k \in 0..RingBits - 1} :
            m >= grand /\ (m = 1 \/ m \div 2 < grand)

----------------------------------------------------------------------------
(* StreamActiveIPs *)

NoIndex == [blocks |-> <<>>, singles |-> <<>>, cidrs |-> 0, grand |-> 0]

StreamInit ==
    /\ list = <<>> /\ limit = 0 /\ spc = "new"
    /\ index = NoIndex /\ ring = 1 /\ state = 0 /\ dispatched = 0
    /\ row = 1 /\ curr = 0 /\ out = <<>>

Open(l, lim) ==
    /\ spc = "new"
    /\ list' = l
    /\ limit' = IF lim = 0 THEN MaxWord - 1 ELSE lim
    /\ UNCHANGED <<dispatched, row, curr, out>>

OpenSequential(l, lim) ==
    /\ Open(l, lim)
    /\ spc' = "rows"
    /\ UNCHANGED <<index, ring, state>>

OpenShuffled(l, lim) ==
    /\ Open(l, lim)
    /\ LET rows == Indexed(l)
       IN  \E offsets \in OffsetChoices(rows.cidrs) : index' = NewMasterIndexer(rows, offsets)
    /\ IF index'.grand = 0
       THEN spc' = "done" /\ UNCHANGED <<ring, state>>
       ELSE /\ spc' = "draw"
            /\ ring' = RingFor(index'.grand)
            /\ state' \in 0..ring' - 1

Full == Len(out) >= limit

\* One turn of the generator; a state beyond the index is passed over.
Draw ==
    /\ spc = "draw" /\ dispatched < index.grand /\ ~Full
    /\ state' = NextState(state, ring)
    /\ spc' = IF state' < index.grand THEN "send" ELSE "draw"
    /\ UNCHANGED <<list, limit, index, ring, dispatched, row, curr, out>>

SendShuffled ==
    /\ spc = "send"
    /\ out' = Append(out, AddressAt(index, state))
    /\ dispatched' = dispatched + 1
    /\ spc' = "draw"
    /\ UNCHANGED <<list, limit, index, ring, state, row, curr>>

EndShuffled ==
    /\ spc = "draw" /\ (dispatched >= index.grand \/ Full)
    /\ spc' = "done"
    /\ UNCHANGED <<list, limit, index, ring, state, dispatched, row, curr, out>>

SkipRow ==
    /\ spc = "rows" /\ row <= Len(list) /\ ~list[row].on
    /\ row' = row + 1
    /\ UNCHANGED <<list, limit, spc, index, ring, state, dispatched, curr, out>>

EnterRow ==
    /\ spc = "rows" /\ row <= Len(list) /\ list[row].on /\ ~Full
    /\ spc' = IF IsSingle(list[row]) THEN "single" ELSE "cidr"
    /\ curr' = list[row].start
    /\ UNCHANGED <<list, limit, index, ring, state, dispatched, row, out>>

EndSequential ==
    /\ spc = "rows"
    /\ row <= Len(list) => list[row].on /\ Full
    /\ spc' = "done"
    /\ UNCHANGED <<list, limit, index, ring, state, dispatched, row, curr, out>>

SendSingle ==
    /\ spc = "single"
    /\ out' = Append(out, curr)
    /\ row' = row + 1
    /\ spc' = "rows"
    /\ UNCHANGED <<list, limit, index, ring, state, dispatched, curr>>

\* StreamCIDR
SendNext ==
    /\ spc = "cidr" /\ curr \in Addresses(list[row]) /\ ~Full
    /\ out' = Append(out, curr)
    /\ curr' = curr + 1
    /\ UNCHANGED <<list, limit, spc, index, ring, state, dispatched, row>>

LeaveRow ==
    /\ spc = "cidr" /\ (curr \notin Addresses(list[row]) \/ Full)
    /\ row' = row + 1
    /\ spc' = "rows"
    /\ UNCHANGED <<list, limit, index, ring, state, dispatched, curr, out>>

\* The context ends: seen before a turn of the generator and at every send.
Cancelled ==
    /\ \/ spc \in {"draw", "send"} /\ dispatched < index.grand /\ ~Full
       \/ spc = "single"
       \/ spc = "cidr" /\ curr \in Addresses(list[row]) /\ ~Full
    /\ spc' = "cancelled"
    /\ UNCHANGED <<list, limit, index, ring, state, dispatched, row, curr, out>>

StreamStep ==
    \/ Draw \/ SendShuffled \/ EndShuffled
    \/ SkipRow \/ EnterRow \/ EndSequential \/ SendSingle \/ SendNext \/ LeaveRow

----------------------------------------------------------------------------
(* Properties *)

Ended == spc \in {"done", "cancelled"}
Sent(a) == Cardinality({i \in DOMAIN out : out[i] = a})
Rows(a) == Cardinality({i \in DOMAIN list : list[i].on /\ a \in Addresses(list[i])})

\* Neither order sends an address more often than enabled rows contain it, and
\* a stream that was not cancelled sends as many addresses as it may: all of
\* them, or the limit, or (shuffled, when the list does not fit a word) as many
\* as the index holds.  With the first part that makes the shuffled order a
\* permutation (shuffle.go: streamActiveIPsShuffled, parser.go: StreamCIDR).
\* The number shown as the total of the scan (loader.go: CountActiveIPs) is the
\* number it sends, up to the limit and to the width of the counter.
EachOnce ==
    /\ \A i \in DOMAIN out : Sent(out[i]) <= Rows(out[i])
    /\ spc = "done" =>
        Len(out) = Smaller(limit, IF index = NoIndex THEN Total(list) ELSE index.grand)
    /\ index # NoIndex /\ Fits(list) => index.grand = Total(list)
    /\ spc = "done" /\ (Fits(list) \/ index = NoIndex) =>
        Smaller(CountActiveIPs(list), limit) = Len(out)

\* The generator comes back to an unvisited index until all are visited, so
\* every stream ends (shuffle.go:237).
StreamEnds == [](spc # "new" => <>Ended)
=============================================================================
