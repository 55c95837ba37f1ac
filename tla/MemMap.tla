------------------------------- MODULE MemMap -------------------------------
(***************************************************************************)
(* The console's addresses in this process: the reservation of             *)
(* platform/native/mem.c over mem_posix.c or mem_win32.c, and the two      *)
(* questions platform/dma.c asks of an address range, its own map first    *)
(* and then the host.  A cell is a halfword of address space.              *)
(***************************************************************************)
EXTENDS Integers, Sequences, SequencesExt

CONSTANTS
  Regions,    \* kMap, in its order: [base, size] of what the console decodes
  Top,        \* the addresses are 0 .. Top - 1
  MemoPage,   \* the 4 KiB page of the memo
  Worlds      \* the processes the port may run in: the host, what
              \* PortHostPageSize says there, and what is in it already

Cells  == 0 .. Top - 1
Others == {"free", "guard", "foreign"}    \* guard: mapped, and faults on a touch

ASSUME MemMapAssumption ==
  /\ Top \in Nat /\ MemoPage \in Nat \ {0} /\ Top % MemoPage = 0
  /\ Worlds \subseteq [host : {"posix", "win32"}, page : Nat \ {0}, owner : [Cells -> Others]]
  /\ \A w \in Worlds : w.page % MemoPage = 0
  /\ Regions \in Seq([base : Nat, size : Nat])
  /\ \A i, j \in DOMAIN Regions : i < j => Regions[i].base <= Regions[j].base
  /\ \A i \in DOMAIN Regions : Regions[i].base + Regions[i].size <= Top

Span(base, size) == base .. base + size - 1
RegionCells == UNION {Span(Regions[i].base, Regions[i].size) : i \in DOMAIN Regions}

RoundUp(n, to)   == ((n + to - 1) \div to) * to
RoundDown(n, to) == n - (n % to)

(* One region of the table against the spans so far. *)
Extended(spans, lo, hi) ==
  LET last == spans[Len(spans)]
  IN  IF hi > last.base + last.size THEN [spans EXCEPT ![Len(spans)].size = hi - last.base] ELSE spans

(* Bug: a region inside the one before cuts it short. *)
CutShort(spans, lo, hi) == [spans EXCEPT ![Len(spans)].size = hi - spans[Len(spans)].base]
Merged(spans, lo, hi) == Extended(spans, lo, hi)

Joined(spans, r, page) ==
  LET lo == RoundDown(r.base, page)
      hi == r.base + RoundUp(r.size, page)
  IN  IF spans # <<>> /\ lo <= spans[Len(spans)].base + spans[Len(spans)].size
        THEN Merged(spans, lo, hi)
        ELSE Append(spans, [base |-> lo, size |-> hi - lo])

Coalesce(page) ==
  LET after[n \in 0 .. Len(Regions)] ==
        IF n = 0 THEN <<>> ELSE Joined(after[n - 1], Regions[n], page)
  IN  after[Len(Regions)]

(* AnythingMapped and RangeIsFree; MAP_FIXED_NOREPLACE asks the same, and a *)
(* kernel that does not know it and puts the mapping elsewhere is found    *)
(* out and undone.                                                         *)
AlreadyTaken(owner, s) == {c \in Span(s.base, s.size) : owner[c] # "free"}

(* PortHostAddrValid: every page of the range exists; on Windows it must   *)
(* be readable too, and its pages are of 4 KiB: what PortHostPageSize says *)
(* there is the granularity of reservations.                               *)
PagesOf(lo, len, page) == RoundDown(lo, page) .. RoundUp(lo + len, page) - 1

PageOf(host, page) == IF host = "posix" THEN page ELSE MemoPage
Valid(host) == IF host = "posix" THEN {"ours", "foreign", "guard"} ELSE {"ours", "foreign"}

AddrValid(host, owner, page, lo, len) ==
  /\ lo >= 0 /\ lo + len <= Top
  /\ \A c \in PagesOf(lo, len, PageOf(host, page)) \cap Cells : owner[c] \in Valid(host)

NoMemo == [page |-> 0, ok |-> FALSE]

(* Bug: an answer for the first page of a range stands for the range. *)
FirstPageOnly(memo, lo, len) == RoundDown(lo, MemoPage) = memo.page
Remembered(memo, lo, len) ==
  RoundDown(lo, MemoPage) = memo.page /\ RoundDown(lo + len - 1, MemoPage) = memo.page

(* PortHostRangeOk: what it answers, and what it leaves in the memo.       *)
(* space is [host, owner, page, lo, hi]: who owns what, and the window.    *)
(* Below 0 is the top of the address space, where there is nothing.        *)
HostRangeOk(space, memo, lo, len) ==
  CASE \/ len = 0 \/ (lo < 0 /\ lo + len >= 0)
       \/ (lo < space.hi /\ lo + len > space.lo) -> [ok |-> FALSE, memo |-> memo]
    [] OTHER ->
         IF Remembered(memo, lo, len) THEN [ok |-> memo.ok, memo |-> memo]
         ELSE LET valid == AddrValid(space.host, space.owner, space.page, lo, len)
              IN  [ok |-> valid, memo |-> [page |-> RoundDown(lo, MemoPage), ok |-> valid]]

Decoded(lo, len) ==
  \E i \in DOMAIN Regions : lo >= Regions[i].base /\ lo + len <= Regions[i].base + Regions[i].size

(* RangeOk of dma.c. *)
RangeOk(space, memo, lo, len) ==
  IF Decoded(lo, len) THEN [ok |-> TRUE, memo |-> memo] ELSE HostRangeOk(space, memo, lo, len)
=============================================================================
