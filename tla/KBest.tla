------------------------------- MODULE KBest -------------------------------
(***************************************************************************)
(* The K-best measurement scheme of fcyc.c.  fcyc times the function it is *)
(* given again and again with the cycle counter, keeps the kbest least     *)
(* times in an array sorted by insertion, and stops when they lie within   *)
(* epsilon of each other or when maxsamples times have been taken.  On     *)
(* request it reads through a buffer before each call, to clear the cache, *)
(* and takes the cost of timer interrupts off.  Between two measurements   *)
(* the parameters may be set anew.                                         *)
(***************************************************************************)
EXTENDS Clock, Sequences

CONSTANTS
  Times,         \* how many cycles a call of the function may take
  Starts,        \* where the cycle counter may stand when it is called
  Ticks,         \* how many timer interrupts may fall into a call
  Rates,         \* how many cycles callibrate may see an interrupt take
  Ks,            \* what set_fcyc_k may be given
  Limits,        \* what set_fcyc_maxsamples may be given
  Epsilons,      \* what set_fcyc_epsilon may be given, in parts of Den
  Den,
  Sizes,         \* what set_fcyc_cache_size may be given, in ints
  Blocks         \* what set_fcyc_cache_block may be given, in ints

(* A cache block of no int would have clear go on for ever.                *)
ASSUME KBestAssumption ==
  /\ Radix \in Nat \ {0, 1}
  /\ RecordThresh \in Nat
  /\ Starts \subseteq Nat
  /\ Times \subseteq 1 .. Radix * Radix - 1
  /\ Ticks \subseteq Nat /\ Rates \subseteq Nat
  /\ Ks \subseteq Nat \ {0} /\ Ks # {} /\ IsFiniteSet(Ks)
  /\ Limits \subseteq Nat \ {0} /\ Limits # {} /\ IsFiniteSet(Limits)
  /\ Epsilons \subseteq Nat /\ Epsilons # {}
  /\ Den \in Nat \ {0}
  /\ Sizes \subseteq Nat \ {0} /\ Sizes # {}
  /\ Blocks \subseteq Nat \ {0} /\ Blocks # {}

VARIABLES
  kbest, maxsamples, epsilon,
  compensate, clear_cache, cache_bytes, cache_block,
  cache_buf,     \* the size of the buffer clear reads, NULL while there is none
  cyc_per_tick,
  values,        \* values[1] .. values[kbest], zero where calloc left it;
                 \* empty between the calls of fcyc
  samplecount,
  measuring,     \* fcyc is in its loop
  exited,        \* there was no memory for the buffer
  result,        \* what fcyc returned last, 0 before
  seen           \* auxiliary: how many samples of this call of fcyc were no
                 \* larger than this one, counted up to the largest K

sampling == <<kbest, maxsamples, epsilon>>
cache == <<clear_cache, cache_bytes, cache_block, cache_buf>>
counter == <<compensate, cyc_per_tick>>
sampler == <<values, samplecount, measuring, exited, result, seen>>
vars == <<sampling, cache, counter, sampler>>

NULL == 0

(* what a sample may be: a time, or what is left of it                     *)
Samples ==
  {t - k * r : t \in Times, k \in Ticks \cup {0}, r \in Rates \cup {0}}

NothingSeen == [v \in Samples |-> 0]

-----------------------------------------------------------------------------
(* the swaps carry the value at pos down while the one before it is larger *)
Inserted(vals, pos) ==
  LET to == Min({i \in 1 .. pos : \A j \in i .. pos - 1 : vals[j] > vals[pos]})
  IN  [i \in DOMAIN vals |->
         IF i = to THEN vals[pos]
         ELSE IF to < i /\ i <= pos THEN vals[i - 1] ELSE vals[i]]

(* mutant: once the array is full its last value is never displaced        *)
WithFirst(vals, t) ==
  IF samplecount < kbest
  THEN Inserted([vals EXCEPT ![samplecount + 1] = t], samplecount + 1)
  ELSE vals

(* add_sample: where the sample goes, if it is among the kbest least       *)
WithSample(vals, t) ==
  IF samplecount < kbest
  THEN Inserted([vals EXCEPT ![samplecount + 1] = t], samplecount + 1)
  ELSE IF t < vals[kbest] THEN Inserted([vals EXCEPT ![kbest] = t], kbest)
  ELSE vals

HasConverged(vals, count) ==
  count >= kbest /\ (Den + epsilon) * vals[1] >= Den * vals[kbest]

(* mutant: only the samples that fill the array are counted                *)
CountStored == Min({samplecount + 1, kbest})

Count == samplecount + 1

-----------------------------------------------------------------------------
Init ==
  /\ kbest \in Ks
  /\ maxsamples \in Limits
  /\ epsilon \in Epsilons
  /\ compensate = FALSE /\ clear_cache = FALSE
  /\ cache_bytes \in Sizes /\ cache_block \in Blocks
  /\ cache_buf = NULL
  /\ cyc_per_tick = 0
  /\ values = <<>>
  /\ samplecount = 0
  /\ measuring = FALSE
  /\ exited = FALSE
  /\ result = 0
  /\ seen = NothingSeen

Idle == ~measuring /\ ~exited

SetSampling ==
  /\ Idle
  /\ \/ kbest' \in Ks /\ UNCHANGED <<maxsamples, epsilon>>
     \/ maxsamples' \in Limits /\ UNCHANGED <<kbest, epsilon>>
     \/ epsilon' \in Epsilons /\ UNCHANGED <<kbest, maxsamples>>
  /\ UNCHANGED <<cache, counter, sampler>>

SetCompensate ==
  /\ Idle
  /\ compensate' \in BOOLEAN
  /\ UNCHANGED <<sampling, cache, cyc_per_tick, sampler>>

SetClearing ==
  /\ Idle
  /\ \/ clear_cache' \in BOOLEAN /\ UNCHANGED cache_block
     \/ cache_block' \in Blocks /\ UNCHANGED clear_cache
  /\ UNCHANGED <<sampling, cache_bytes, cache_buf, counter, sampler>>

(* mutant: the buffer of the old size is kept                              *)
BufferKept(bytes) == cache_buf

(* the buffer after set_fcyc_cache_size                                    *)
BufferAfter(bytes) == IF bytes = cache_bytes THEN cache_buf ELSE NULL

SetCacheSize ==
  /\ Idle
  /\ \E bytes \in Sizes :
       cache_bytes' = bytes /\ cache_buf' = BufferAfter(bytes)
  /\ UNCHANGED <<sampling, clear_cache, cache_block, counter, sampler>>

-----------------------------------------------------------------------------
(* mutant: the count goes on from the call before                          *)
StartCountingOn ==
  /\ Idle
  /\ measuring' = TRUE
  /\ values' = [i \in 1 .. kbest |-> 0]
  /\ seen' = NothingSeen
  /\ UNCHANGED <<sampling, cache, counter, samplecount, exited, result>>

(* init_sampler; the loop has a first round whatever the limit             *)
Start ==
  /\ Idle
  /\ measuring' = TRUE
  /\ values' = [i \in 1 .. kbest |-> 0]
  /\ samplecount' = 0
  /\ seen' = NothingSeen
  /\ UNCHANGED <<sampling, cache, counter, exited, result>>

(* add_sample and the end of the loop's round; after the last round fcyc   *)
(* frees the array and returns                                             *)
Add(cyc, sample) ==
  LET vals == WithSample(values, cyc)
      again == ~HasConverged(vals, Count) /\ Count < maxsamples
  IN
  /\ samplecount' = Count
  /\ measuring' = again
  /\ values' = IF again THEN vals ELSE <<>>
  /\ result' = IF again THEN result ELSE vals[1]
  /\ seen' = [v \in Samples |-> IF sample <= v THEN Min({seen[v] + 1, Max(Ks)})
                                ELSE seen[v]]
  /\ UNCHANGED <<sampling, clear_cache, cache_bytes, cache_block, compensate,
                 exited>>

(* clear: the offsets of the ints it reads                                 *)
Swept == {i \in 0 .. cache_bytes - 1 : i % cache_block = 0}

Clear == cache_buf' = IF clear_cache /\ cache_buf = NULL THEN cache_bytes
                      ELSE cache_buf

(* one round of the loop: the function takes t cycles from where the       *)
(* counter stood, of which interrupts took some; start_comp_counter        *)
(* callibrates for as long as that has given nothing                       *)
Round ==
  /\ measuring
  /\ Clear
  /\ IF compensate /\ cyc_per_tick = 0
     THEN \E rates \in SUBSET Rates : cyc_per_tick' = Callibrated(rates)
     ELSE UNCHANGED cyc_per_tick
  /\ \E t \in Times, start \in Starts, ticks \in IF compensate THEN Ticks ELSE {0} :
       Add(Compensated(Reading(start), Reading(start + t), ticks, cyc_per_tick'),
           t - ticks * cyc_per_tick')

(* malloc returns NULL in clear                                            *)
NoBuffer ==
  /\ measuring /\ clear_cache /\ cache_buf = NULL
  /\ exited' = TRUE /\ measuring' = FALSE
  /\ values' = <<>>
  /\ UNCHANGED <<sampling, cache, counter, samplecount, result, seen>>

Next ==
  \/ SetSampling \/ SetCompensate \/ SetClearing \/ SetCacheSize
  \/ Start \/ Round \/ NoBuffer

(* the function timed returns, so a round that has begun ends              *)
Spec == Init /\ [][Next]_vars /\ WF_vars(Round)

-----------------------------------------------------------------------------
(* Type invariant.                                                         *)
TypeOK ==
  /\ kbest \in Ks /\ maxsamples \in Limits /\ epsilon \in Epsilons
  /\ compensate \in BOOLEAN /\ clear_cache \in BOOLEAN
  /\ cache_bytes \in Sizes /\ cache_block \in Blocks
  /\ cache_buf \in Sizes \cup {NULL}
  /\ cyc_per_tick \in Rates \cup {0}
  /\ values \in Seq(Samples \cup {0})
  /\ Len(values) = (IF measuring THEN kbest ELSE 0)
  /\ samplecount \in 0 .. Max(Limits)
  /\ measuring \in BOOLEAN /\ exited \in BOOLEAN
  /\ result \in Samples \cup {0}
  /\ seen \in [Samples -> 0 .. Max(Ks)]

(* fcyc.c:117: however size, block and switch are set between the calls,   *)
(* clear reads no int behind the buffer it once allocated.                 *)
SweepsInBuffer ==
  cache_buf # NULL => \A i \in Swept : i < cache_buf

(* However many samples were discarded, wherever the counter wrapped, and  *)
(* whatever interrupts were taken to cost, the array holds the least of    *)
(* the samples, each as often as it was taken, in order: its i-th value is *)
(* at most v exactly when i samples were.                                  *)
HoldsBest ==
  measuring =>
    \A i \in 1 .. Min({samplecount, kbest}), v \in Samples :
      values[i] <= v <=> i <= seen[v]

(* fcyc.c:162: what is returned is the least sample taken, also when the   *)
(* limit was met before K samples were.                                    *)
ResultIsLeast ==
  [][measuring /\ ~measuring' /\ ~exited' =>
       result' = Min({v \in Samples : seen'[v] > 0})]_vars

(* Every measurement ends, whether or not the samples ever converge: those *)
(* below zero do not even when they are equal.                             *)
MeasurementEnds == measuring ~> ~measuring

=============================================================================
