----------------------------- MODULE MallocSpec -----------------------------
(***************************************************************************)
(* What a malloc package promises its client: every pointer it hands out   *)
(* is aligned, its payload lies within the heap, and overlaps no payload   *)
(* still held; free and realloc end the hold of one pointer and disturb no *)
(* other.  This is what the driver's add_range demands of a package        *)
(* (mdriver.c:375-429).  Nothing is said of blocks, lists or placement.    *)
(***************************************************************************)
EXTENDS Integers

CONSTANTS
  Lo, Hi,     \* the arena the heap grows in
  Slack,      \* memory the package may waste before it gives up
  Sizes       \* the sizes the client asks for

VARIABLES
  live,       \* pointer held by the client -> bytes it asked for
  top,        \* first address above the heap
  dead        \* the package gave up for want of memory, and cannot go on

pvars == <<live, top, dead>>

None == [p \in {} |-> 0]

Except(p) == DOMAIN live \ {p}

(* a payload of n bytes at q is legal among the payloads of holders        *)
Legal(q, n, holders) ==
  /\ q % 8 = 0
  /\ q >= Lo
  /\ q + n <= top'
  /\ q \notin holders
  /\ \A p \in holders : p + live[p] <= q \/ q + n <= p

Start ==
  /\ live = None
  /\ top \in Lo .. Hi
  /\ dead = FALSE

Grow == top <= top' /\ top' <= Hi

Obtain(n) ==
  /\ n > 0
  /\ Grow
  /\ \E q \in Lo .. Hi :
       /\ Legal(q, n, DOMAIN live)
       /\ live' = [p \in DOMAIN live \cup {q} |-> IF p = q THEN n ELSE live[p]]
  /\ UNCHANGED dead

Release(p) ==
  /\ live' = [r \in Except(p) |-> live[r]]
  /\ UNCHANGED <<top, dead>>

Resize(p, n) ==
  /\ n > 0
  /\ Grow
  /\ \E q \in Lo .. Hi :
       /\ Legal(q, n, Except(p))
       /\ live' = [r \in Except(p) \cup {q} |-> IF r = q THEN n ELSE live[r]]
  /\ UNCHANGED dead

(* only when less is left than the request and the permitted waste         *)
GiveUp(n) ==
  /\ top + n + Slack > Hi
  /\ dead' = TRUE
  /\ UNCHANGED <<live, top>>

Reset ==
  /\ live' = None
  /\ top' \in Lo .. Hi
  /\ UNCHANGED dead

Step ==
  /\ ~dead
  /\ \/ \E n \in Sizes : Obtain(n) \/ GiveUp(n)
     \/ \E p \in DOMAIN live : Release(p) \/ \E n \in Sizes : Resize(p, n)
     \/ Reset

PSpec == Start /\ [][Step]_pvars

(* The payloads held by the client never overlap.                          *)
PayloadsDisjoint ==
  \A p, q \in DOMAIN live : p # q => p + live[p] <= q \/ q + live[q] <= p

=============================================================================
