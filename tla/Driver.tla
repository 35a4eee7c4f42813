------------------------------- MODULE Driver -------------------------------
(***************************************************************************)
(* main of mdriver.c: it reads one trace file after the other and replays  *)
(* each on the package under test, with -l first on the C library's.  The  *)
(* files are any files.  The packages are only what the driver must assume *)
(* of them: a call may fail, a block that is handed out is a new one, and  *)
(* what a call does with a pointer that is not held is undefined.          *)
(***************************************************************************)
EXTENDS Integers, Sequences, FiniteSetsExt

CONSTANTS
  Inputs,      \* the lists of trace files main may be given
  Sizes,       \* what an unset size of read_trace may happen to be
  MaxRuns      \* bound on how often fsecs calls what it times

(* A line has as many numbers as its type asks for, or fewer: one more is  *)
(* read as the type of the next line, a bogus one.                         *)
Wanted(type) == CASE type \in {"a", "r"} -> 2 [] type = "f" -> 1 [] OTHER -> 0

Line == {l \in [type : {"a", "r", "f", "bogus"}, args : Seq(Nat)] :
           Len(l.args) <= Wanted(l.type)}
File == [num_ids : Nat, num_ops : Nat, lines : Seq(Line)]

ASSUME DriverAssumption ==
  /\ Inputs \subseteq Seq(File) \ {<<>>}
  /\ Sizes \subseteq Nat /\ Sizes # {}
  /\ MaxRuns \in Nat \ {0}

VARIABLES
  files, run_libc,   \* what main was started with
  pass,        \* "libc" or "mm": the package under test
  tracenum,
  stage,       \* where main is: a phase, or how it ended
  pos,         \* lines read in "read", operations done in a phase
  reader,      \* read_trace's index, size and max_index
  ops,         \* trace->ops
  blocks,      \* trace->blocks
  block_sizes, \* trace->block_sizes, which only eval_mm_valid and
               \* eval_mm_util write and read
  total, peak, \* total_size and max_total_size of eval_mm_util, and 0
               \* in the other phases
  held,        \* the blocks the package has handed out and not taken back
  runs,        \* calls of the function fsecs times
  valid,       \* mm_stats[].valid
  errors, numcorrect,
  report,      \* what main printed last: the index or the number of errors
  misused      \* auxiliary: the traces that passed a package a pointer it
               \* had not handed out, or an entry beyond trace->blocks

main == <<files, run_libc>>
trace == <<reader, ops>>
results == <<numcorrect, report>>
usage == <<block_sizes, total, peak>>
vars == <<main, trace, results, usage, pass, tracenum, stage, pos, blocks, held,
          runs, valid, errors, misused>>

Phases == {"valid", "util", "speed"}
Stopped == {"exit0", "exit1", "aborted", "dead"}

NULL == 0
Junk == -1
file == files[tracenum]

-----------------------------------------------------------------------------
Init ==
  /\ files \in Inputs
  /\ run_libc \in BOOLEAN
  /\ pass = IF run_libc THEN "libc" ELSE "mm"
  /\ tracenum = 1
  /\ stage = "open"
  /\ pos = 0
  /\ reader = [index |-> 0, size |-> 0, max_index |-> 0]
  /\ ops = <<>>
  /\ blocks = <<>>
  /\ block_sizes = <<>>
  /\ total = 0
  /\ peak = 0
  /\ held = {}
  /\ runs = 0
  /\ valid = [t \in DOMAIN files |-> FALSE]
  /\ errors = 0
  /\ numcorrect = 0
  /\ report = "none"
  /\ misused = {}

Stop(how) ==
  /\ stage' = how
  /\ UNCHANGED <<main, trace, results, usage, pass, tracenum, pos, blocks, held,
                 runs, valid>>

(* app_error, unix_error                                                   *)
Exit == Stop("exit1") /\ UNCHANGED <<errors, misused>>

(* mutant: main's loops go one round too far                               *)
NextTraceOneMore(ok) ==
  /\ tracenum' = tracenum + 1
  /\ stage' = IF tracenum <= Len(files) THEN "open" ELSE "results"
  /\ valid' = [valid EXCEPT ![tracenum] = ok]
  /\ UNCHANGED <<main, trace, results, usage, pass, pos, blocks, held, runs>>

(* the end of a round of main's loops: free_trace                          *)
NextTrace(ok) ==
  /\ valid' = IF pass = "mm" THEN [valid EXCEPT ![tracenum] = ok] ELSE valid
  /\ IF tracenum < Len(files)
     THEN tracenum' = tracenum + 1 /\ stage' = "open" /\ pass' = pass
     ELSE /\ tracenum' = 1
          /\ stage' = IF pass = "libc" THEN "open" ELSE "results"
          /\ pass' = "mm"
  /\ pos' = 0
  /\ reader' = [index |-> 0, size |-> 0, max_index |-> 0]
  /\ ops' = <<>>
  /\ blocks' = <<>>
  /\ block_sizes' = <<>>
  /\ total' = 0
  /\ peak' = 0
  /\ held' = {}
  /\ runs' = 0
  /\ UNCHANGED <<main, results>>

(* mutant: malloc_error is called, and the trace is gone on with           *)
GiveUpTooLate ==
  /\ errors' = errors + 1
  /\ IF stage = "valid" /\ pass = "mm" /\ pos < Len(ops)
     THEN /\ pos' = pos + 1
          /\ UNCHANGED <<main, trace, results, usage, pass, tracenum, stage,
                         blocks, held, runs, valid>>
     ELSE Stop("exit1")

(* a package function has failed: malloc_error and the next trace, if the  *)
(* student's package is on trial, and the end of the program otherwise     *)
GiveUp ==
  IF stage = "valid"
  THEN /\ errors' = errors + 1
       /\ IF pass = "mm" THEN NextTrace(FALSE) ELSE Stop("exit1")
  ELSE Stop("exit1") /\ UNCHANGED errors

-----------------------------------------------------------------------------
(* read_trace                                                              *)

(* the header, the arrays, and the variables that nothing initializes      *)
OpenTrace ==
  /\ stage = "open"
  /\ stage' = "read"
  /\ pos' = 0
  /\ \E n \in Sizes : reader' = [index |-> 0, size |-> n, max_index |-> 0]
  /\ \E p \in {NULL, Junk} : blocks' = [i \in 0 .. file.num_ids - 1 |-> p]
  /\ block_sizes' = [i \in 0 .. file.num_ids - 1 |-> Junk]
  /\ ops' = <<>>
  /\ UNCHANGED <<main, results, pass, tracenum, total, peak, held, runs, valid,
                 errors, misused>>

(* fopen or one of the mallocs fails; before the first trace also the      *)
(* calloc of the statistics and mem_init                                   *)
OpenFails == stage = "open" /\ Exit

(* mutant: only the indices of a-lines count                               *)
ParsedAllocOnly(line) ==
  LET index == IF line.args # <<>> THEN line.args[1] ELSE reader.index
  IN  [index |-> index,
       size |-> IF Len(line.args) = 2 THEN line.args[2] ELSE reader.size,
       max_index |-> IF line.type = "a" THEN Max({index, reader.max_index})
                     ELSE reader.max_index]

(* fscanf leaves alone what the line does not give; f-lines do not count   *)
(* for max_index                                                           *)
Parsed(line) ==
  LET index == IF line.args # <<>> THEN line.args[1] ELSE reader.index
  IN  [index |-> index,
       size |-> IF Len(line.args) = 2 THEN line.args[2] ELSE reader.size,
       max_index |-> IF line.type = "f" THEN reader.max_index
                     ELSE Max({index, reader.max_index})]

(* Beyond the array the store is undefined: it kills the program, or is    *)
(* not noticed until the assertion.                                        *)
ReadLine ==
  /\ stage = "read" /\ pos < Len(file.lines)
  /\ LET line == file.lines[pos + 1]
         r == Parsed(line)
         op == [type |-> line.type, index |-> r.index,
                size |-> IF line.type = "f" THEN 0 ELSE r.size]
     IN  IF line.type = "bogus" THEN Exit
         ELSE \/ /\ reader' = r
                 /\ ops' = IF pos < file.num_ops THEN Append(ops, op) ELSE ops
                 /\ pos' = pos + 1
                 /\ UNCHANGED <<main, results, usage, pass, tracenum, stage,
                                blocks, held, runs, valid, errors, misused>>
              \/ /\ pos >= file.num_ops
                 /\ Stop("dead") /\ UNCHANGED <<errors, misused>>

-----------------------------------------------------------------------------
(* mutant: the rounds of the timer are not counted                         *)
RunsUncounted(phase) == 0

RunsIn(phase) == IF phase = "speed" THEN runs + 1 ELSE 0

(* mem_reset_brk and mm_init; the C library is not reset, and of what was  *)
(* left there only the blocks the trace still names matter                 *)
Begin(phase) ==
  /\ stage' = phase
  /\ pos' = 0
  /\ held' = IF pass = "mm" THEN {}
             ELSE held \cap {blocks[i] : i \in DOMAIN blocks}
  /\ runs' = RunsIn(phase)
  /\ total' = 0
  /\ peak' = 0
  /\ UNCHANGED <<main, trace, results, pass, tracenum, blocks, block_sizes,
                 valid, errors, misused>>

(* the assertions, and the first phase; mm_init may fail                   *)
CloseTrace ==
  /\ stage = "read" /\ pos = Len(file.lines)
  /\ IF reader.max_index = file.num_ids - 1 /\ pos = file.num_ops
     THEN \/ Begin("valid")
          \/ /\ pass = "mm"
             /\ errors' = errors + 1 /\ NextTrace(FALSE)
             /\ UNCHANGED misused
     ELSE Stop("aborted") /\ UNCHANGED <<errors, misused>>

-----------------------------------------------------------------------------
(* the calls of the packages                                               *)

(* the blocks that may be handed out: any that is not held, be it where a  *)
(* stale entry points, or elsewhere, where one stands for all              *)
Fresh ==
  LET named == {blocks[i] : i \in DOMAIN blocks} \ {NULL, Junk}
      taken == held \cup named
  IN  (named \ held) \cup {Min(1 .. Cardinality(taken) + 1 \ taken)}

(* mm_malloc refuses a request for nothing                                 *)
MallocResults(n) == {NULL} \cup (IF pass = "mm" /\ n = 0 THEN {} ELSE Fresh)

(* an entry beyond the array is whatever lies there                        *)
Entries(i) == IF i \in DOMAIN blocks THEN {blocks[i]} ELSE {NULL, Junk}

(* the pointer p is one the package may be given; mm_free does not test    *)
(* for NULL, and mm_realloc to no size is mm_free                          *)
Defined(p, freeing) ==
  p \in held \/ (p = NULL /\ (freeing => pass = "libc"))

(* what the request op does to the size recorded of its block, and to the  *)
(* total, in which it replaces the size recorded before                    *)
Sized(op) == stage \in {"valid", "util"} /\ pass = "mm" /\ op.type # "f"

OldSize(op) ==
  IF op.type = "a" THEN 0
  ELSE IF op.index \in DOMAIN block_sizes THEN block_sizes[op.index] ELSE Junk

NewTotal(op) == total - OldSize(op) + (IF op.type = "f" THEN 0 ELSE op.size)

(* mutant: what mm_realloc was asked for is not recorded                   *)
AccountOnce(op) ==
  /\ block_sizes' = IF Sized(op) /\ op.type = "a"
                    THEN [block_sizes EXCEPT ![op.index] = op.size]
                    ELSE block_sizes
  /\ total' = IF stage = "util" THEN NewTotal(op) ELSE total
  /\ peak' = IF stage = "util" /\ op.type # "f" THEN Max({peak, NewTotal(op)}) ELSE peak

Account(op) ==
  /\ block_sizes' = IF Sized(op) THEN [block_sizes EXCEPT ![op.index] = op.size]
                    ELSE block_sizes
  /\ total' = IF stage = "util" THEN NewTotal(op) ELSE total
  /\ peak' = IF stage = "util" /\ op.type # "f" THEN Max({peak, NewTotal(op)}) ELSE peak

(* mutant: eval_mm_speed does not store what mm_realloc returns            *)
AdvanceLossy(i, p, now) ==
  /\ pos' = pos + 1
  /\ held' = now
  /\ blocks' = IF ops[pos + 1].type = "r" /\ stage = "speed" THEN blocks
               ELSE [blocks EXCEPT ![i] = p]
  /\ Account(ops[pos + 1])
  /\ UNCHANGED <<main, trace, results, pass, tracenum, stage, runs, valid,
                 errors, misused>>

(* the next operation, with the package now holding these blocks and the   *)
(* entry of index i being p                                                *)
Advance(i, p, now) ==
  /\ pos' = pos + 1
  /\ held' = now
  /\ blocks' = [blocks EXCEPT ![i] = p]
  /\ Account(ops[pos + 1])
  /\ UNCHANGED <<main, trace, results, pass, tracenum, stage, runs, valid,
                 errors, misused>>

(* undefined: the program dies, or goes on as if nothing had been called,  *)
(* or a realloc fails                                                      *)
Misuse(type) ==
  /\ misused' = misused \cup {<<pass, tracenum>>}
  /\ \/ Stop("dead") /\ UNCHANGED errors
     \/ type = "r" /\ GiveUp
     \/ /\ pos' = pos + 1
        /\ Account(ops[pos + 1])
        /\ UNCHANGED <<main, trace, results, pass, tracenum, stage, blocks,
                       held, runs, valid, errors>>

Operating(type) == stage \in Phases /\ pos < Len(ops) /\ ops[pos + 1].type = type

(* the checks of eval_mm_valid may find fault with the block               *)
Judged(i, p, now) ==
  \/ Advance(i, p, now)
  \/ stage = "valid" /\ pass = "mm" /\ GiveUp /\ UNCHANGED misused

Alloc ==
  /\ Operating("a")
  /\ LET op == ops[pos + 1]
     IN  \E p \in MallocResults(op.size) :
           IF p = NULL THEN GiveUp /\ UNCHANGED misused
           ELSE Judged(op.index, p, held \cup {p})

(* a block may grow where it is, or move                                   *)
Realloc ==
  /\ Operating("r")
  /\ LET op == ops[pos + 1]
         old == blocks[op.index]
     IN  IF ~Defined(old, op.size = 0) THEN Misuse("r")
         ELSE \/ GiveUp /\ UNCHANGED misused
              \/ /\ op.size > 0 \/ old = NULL
                 /\ \E p \in ({old} \cup Fresh) \ {NULL} :
                      Judged(op.index, p, (held \ {old}) \cup {p})

Free ==
  /\ Operating("f")
  /\ \E p \in Entries(ops[pos + 1].index) :
       IF ~Defined(p, TRUE) THEN Misuse("f")
       ELSE /\ pos' = pos + 1
            /\ held' = held \ {p}
            /\ Account(ops[pos + 1])
            /\ UNCHANGED <<main, trace, results, pass, tracenum, stage, blocks,
                           runs, valid, errors, misused>>

-----------------------------------------------------------------------------
After ==
  IF stage = "valid" /\ pass = "mm" THEN "util" ELSE "speed"

(* a phase has done the last operation: the next phase, of which mm_init   *)
(* may fail and end the program                                            *)
NextPhase ==
  /\ stage \in Phases /\ pos = Len(ops)
  /\ stage = "speed" => runs < MaxRuns
  /\ Begin(After) \/ (pass = "mm" /\ Exit)

(* fsecs has measured                                                      *)
EndTrace ==
  /\ stage = "speed" /\ pos = Len(ops)
  /\ NextTrace(TRUE)
  /\ UNCHANGED <<errors, misused>>

(* the aggregate statistics and the performance index                      *)
Report ==
  /\ stage = "results"
  /\ stage' = "exit0"
  /\ numcorrect' = Cardinality({t \in DOMAIN files : valid[t]})
  /\ report' = IF errors = 0 THEN "index" ELSE "errors"
  /\ UNCHANGED <<main, trace, usage, pass, tracenum, pos, blocks, held, runs,
                 valid, errors, misused>>

Next ==
  \/ OpenTrace \/ OpenFails \/ ReadLine \/ CloseTrace
  \/ Alloc \/ Realloc \/ Free
  \/ NextPhase \/ EndTrace \/ Report

(* one thread, which goes on as long as it can                             *)
Spec == Init /\ [][Next]_vars /\ WF_vars(Next)

-----------------------------------------------------------------------------
(* Type invariant.                                                         *)
TypeOK ==
  /\ files \in Seq(File) /\ run_libc \in BOOLEAN
  /\ pass \in {"libc", "mm"}
  /\ tracenum \in DOMAIN files
  /\ stage \in {"open", "read", "results"} \cup Phases \cup Stopped
  /\ pos \in 0 .. Len(file.lines)
  /\ reader \in [index : Nat, size : Nat, max_index : Nat]
  /\ \A k \in DOMAIN ops :
       ops[k] \in [type : {"a", "r", "f"}, index : Nat, size : Nat]
  /\ \A i \in DOMAIN blocks : i \in 0 .. file.num_ids - 1 /\ blocks[i] \in Nat \cup {Junk}
  /\ \A i \in DOMAIN block_sizes :
       i \in 0 .. file.num_ids - 1 /\ block_sizes[i] \in Nat \cup {Junk}
  /\ total \in Int /\ peak \in Nat
  /\ held \subseteq Nat \ {NULL}
  /\ runs \in 0 .. MaxRuns
  /\ valid \in [DOMAIN files -> BOOLEAN]
  /\ errors \in 0 .. Len(files) + 1
  /\ numcorrect \in 0 .. Len(files)
  /\ report \in {"none", "index", "errors"}
  /\ misused \subseteq {"libc", "mm"} \X DOMAIN files

(* mdriver.c:551: whatever a file's header says, no phase is ever run on   *)
(* requests that read_trace stored beyond trace->ops, nor stores a block   *)
(* beyond trace->blocks.                                                   *)
StoresFit ==
  stage \in Phases =>
    /\ Len(ops) = Len(file.lines) /\ Len(ops) = file.num_ops
    /\ \A k \in DOMAIN ops : ops[k].type \in {"a", "r"} => ops[k].index \in DOMAIN blocks

(* the ids of which one line of these has allocated a block and none after *)
(* it freed it                                                             *)
Allocated(lines) ==
  {lines[k].args[1] : k \in {l \in DOMAIN lines :
     /\ lines[l].type \in {"a", "r"}
     /\ \A m \in l + 1 .. Len(lines) :
          ~(lines[m].type = "f" /\ lines[m].args[1] = lines[l].args[1])}}

(* every line is whole, and resizes and frees only what is allocated       *)
Proper(lines) ==
  /\ \A k \in DOMAIN lines :
       lines[k].type \in {"a", "r", "f"}
       /\ Len(lines[k].args) = IF lines[k].type = "f" THEN 1 ELSE 2
  /\ \A k \in DOMAIN lines :
       lines[k].type # "a" =>
         lines[k].args[1] \in Allocated(SubSeq(lines, 1, k - 1))

(* mdriver.c:635, 672: trace->blocks is filled by no one before the first  *)
(* phase and emptied by no one between the phases, yet a trace of proper   *)
(* lines never has a package resize or free a block that is not held,      *)
(* whichever phases come before, and whatever failed in them.              *)
ProperTracesAreSafe ==
  \A use \in misused : ~Proper(files[use[2]].lines)

(* the size last asked for under id i by these lines, if they leave it     *)
(* allocated                                                               *)
AskedFor(lines, i) ==
  IF i \in Allocated(lines)
  THEN lines[Max({k \in DOMAIN lines : lines[k].args[1] = i})].args[2]
  ELSE 0

(* the sum of sizes[0] to sizes[n - 1]                                     *)
Sum(sizes, n) ==
  LET below[i \in 0 .. n] == IF i = 0 THEN 0 ELSE below[i - 1] + sizes[i - 1]
  IN  below[n]

(* what the trace's first k lines ask for and leave allocated, in all      *)
Demand(k) ==
  Sum([i \in 0 .. file.num_ids - 1 |-> AskedFor(SubSeq(file.lines, 1, k), i)],
      file.num_ids)

(* no id is allocated twice without a free in between                      *)
NoDoubles(lines) ==
  \A k \in DOMAIN lines :
    lines[k].type = "a" => lines[k].args[1] \notin Allocated(SubSeq(lines, 1, k - 1))

(* mdriver.c:739: trace->block_sizes starts as junk and keeps the sizes of *)
(* one phase for the next, yet what eval_mm_util adds up from it is what   *)
(* the trace has allocated at that point, and the peak the most of that.   *)
UtilityIsOfTheTrace ==
  stage = "util" /\ Proper(file.lines) /\ NoDoubles(file.lines) =>
    total = Demand(pos) /\ peak = Max({Demand(k) : k \in 0 .. pos})

(* mdriver.c:341: each invalid trace is counted as one error, and a trace  *)
(* is counted as correct or as an error but not both; the index is printed *)
(* exactly when all traces are correct.                                    *)
ErrorsAddUp ==
  stage = "exit0" =>
    /\ errors + numcorrect = Len(files)
    /\ report = "index" <=> numcorrect = Len(files)

(* The driver comes to an end with every list of files.                    *)
DriverEnds == <>(stage \in Stopped)

=============================================================================
