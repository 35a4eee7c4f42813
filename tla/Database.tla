------------------------------ MODULE Database ------------------------------
(***************************************************************************)
(* The address database of lecture-5/ex17.c, and of ex17-old.c, its first  *)
(* version: a file of fixed size that every command loads whole, changes   *)
(* in memory and writes back whole.  Each run of the program is a process  *)
(* of its own; nothing locks the file, a process may be killed anywhere,   *)
(* and the device may fail in the middle of a write.                       *)
(*                                                                         *)
(* The file is a sequence of cells, two to a row: first the entry (id, set *)
(* and name), then the email.  A cell is the least a write leaves whole.   *)
(* The commands get and list, a command that lacks arguments, and one that *)
(* dies before it has opened the file change nothing and are not modelled. *)
(***************************************************************************)
EXTENDS Integers, Sequences

CONSTANTS
  Procs,       \* commands that may run at the same time
  MaxRows,     \* MAX_ROWS
  Values,      \* what a command stores as name and as email
  Versions,    \* which of "ex17" and "ex17-old" may be installed
  Exclusive    \* TRUE: a command starts only when no other is running

Empty == "empty"       \* the string of no characters
Unset == "unset"
Unknown == "unknown"

ASSUME DatabaseAssumption ==
  /\ MaxRows \in Nat \ {0}
  /\ Values \cap {Empty, Unset, Unknown} = {}
  /\ Versions \subseteq {"ex17", "ex17-old"}
  /\ Exclusive \in BOOLEAN

VARIABLES
  version,     \* the program all commands run
  file,        \* the cells of the file; empty if it was never created
  proc,        \* process -> where it is, what it was asked, and conn->db as
               \* it was loaded
  told,        \* what the command that just ended said: "stored", "failed",
               \* or "io-error" if the device did fail; else "nothing"
  kept         \* row -> what the user may rely on to be stored there: the
               \* value of a set that returned, Unset or Unknown

vars == <<version, file, proc, told, kept>>

Rows == 0 .. MaxRows - 1
Size == 2 * MaxRows

Entry(r) == 2 * r + 1        \* the cell of a row's id, set and name
Email(r) == 2 * r + 2

(* rows as zeroed memory and Database_create have them, and as set leaves  *)
Zero(c) == IF c % 2 = 1 THEN [id |-> 0, set |-> 0, name |-> Empty] ELSE Empty

(* the prototype row of ex17-old.c leaves the number out                   *)
BlankEntryOld(r) == [id |-> 0, set |-> 0, name |-> Empty]

BlankEntry(r) ==
  IF version = "ex17" THEN [id |-> r, set |-> 0, name |-> Empty] ELSE BlankEntryOld(r)

Idle == [pc |-> "idle", act |-> "none", id |-> 0, val |-> Empty, db |-> <<>>, at |-> 0]

-----------------------------------------------------------------------------
(* What the commands do to the rows in memory.                             *)

Database_create ==
  [c \in 1 .. Size |-> IF c % 2 = 1 THEN BlankEntry(c \div 2) ELSE Empty]

Database_set(db, r, v) ==
  [db EXCEPT ![Entry(r)].set = 1, ![Entry(r)].name = v, ![Email(r)] = v]

Database_delete(db, r) ==
  [db EXCEPT ![Entry(r)] = BlankEntry(r), ![Email(r)] = Empty]

(* mutant: a row that is set may be set again                              *)
RefusesOnlyId(me) == me.id >= MaxRows

(* main and Database_set die: no such row, or a row that is set already    *)
Refuses(me) ==
  \/ me.id >= MaxRows
  \/ me.id \in Rows /\ me.act = "s" /\ me.db[Entry(me.id)].set = 1

(* a negative row number is not refused: the row it names lies in memory   *)
(* in front of the database, and whether it is "set" is anything. Writing  *)
(* there kills the command (Die, Kill) or changes what it does not read    *)
(* again; a layout in which that is conn itself is left out.               *)
Wild(me) == me.id < 0 /\ me.act # "c"

(* the image to write                                                      *)
Changed(me) ==
  CASE me.act = "c" -> Database_create
    [] Wild(me) -> me.db
    [] me.act = "s" /\ ~Wild(me) -> Database_set(me.db, me.id, me.val)
    [] me.act = "d" /\ ~Wild(me) -> Database_delete(me.db, me.id)

(* what fflush, which returns 0 or EOF, must return for the command to go  *)
(* on: in ex17-old.c what it never returns                                 *)
AcceptsOld(rc) == rc = 1
Accepts(rc) == IF version = "ex17" THEN rc # -1 ELSE AcceptsOld(rc)

-----------------------------------------------------------------------------
(* The file system: cells i to j of db replace those of the file; what an  *)
(* earlier truncation cut off below i reads as zeros.                      *)

(* mutant: the last cell is not written                                    *)
OverwriteShort(f, db, i, j) ==
  [c \in 1 .. (IF Len(f) > j THEN Len(f) ELSE j) |->
     IF i <= c /\ c < j THEN db[c]
     ELSE IF c <= Len(f) THEN f[c] ELSE Zero(c)]

(* mutant: the position is not rewound, so the file grows                  *)
OverwriteAtEnd(f, db, i, j) ==
  f \o SubSeq(db, i, j)

Overwrite(f, db, i, j) ==
  [c \in 1 .. (IF Len(f) > j THEN Len(f) ELSE j) |->
     IF i <= c /\ c <= j THEN db[c]
     ELSE IF c <= Len(f) THEN f[c] ELSE Zero(c)]

-----------------------------------------------------------------------------
(* A process.                                                              *)

Init ==
  /\ version \in Versions
  /\ file = <<>>
  /\ proc = [p \in Procs |-> Idle]
  /\ told = "nothing"
  /\ kept = [r \in Rows |-> Unknown]

Keep(r, what) == [q \in Rows |-> IF q = r THEN what ELSE kept[q]]

(* Database_open: create truncates the file at once, the others load it    *)
Open(p, act, id, val) ==
  /\ proc[p] = Idle
  /\ Exclusive => \A q \in Procs : proc[q] = Idle
  /\ act = "c" \/ Len(file) >= Size
  /\ file' = IF act = "c" THEN <<>> ELSE file
  /\ proc' = [proc EXCEPT ![p] =
       [pc |-> "opened", act |-> act, id |-> id, val |-> val,
        db |-> IF act = "c" THEN <<>> ELSE file, at |-> 0]]
  /\ told' = "nothing"
  /\ kept' = IF act = "c" THEN [r \in Rows |-> Unknown] ELSE kept
  /\ UNCHANGED version

(* the row number is looked at only now, with the file already opened      *)
Die(p) ==
  /\ proc[p].pc = "opened"
  /\ Refuses(proc[p]) \/ (Wild(proc[p]) /\ proc[p].act = "s")
  /\ proc' = [proc EXCEPT ![p] = Idle]
  /\ told' = "failed"
  /\ UNCHANGED <<version, file, kept>>

(* the change in memory, rewind and fwrite: the C library writes as much   *)
(* of the image as it likes, from the front, and buffers the rest          *)
Fwrite(p, k) ==
  /\ proc[p].pc = "opened"
  /\ ~Refuses(proc[p])
  /\ file' = Overwrite(file, Changed(proc[p]), 1, k)
  /\ proc' = [proc EXCEPT ![p].pc = "written", ![p].at = k]
  /\ told' = "nothing"
  /\ UNCHANGED <<version, kept>>

(* fflush returns rc, and the image is written as far as cell j: whole if  *)
(* rc is 0, and after an error as far as it got, or as exit got when it    *)
(* tried again.  If the program takes rc for a success the command returns *)
(* and the user has its word; if not it dies.  (An error that fwrite sees  *)
(* already has the same end.)                                              *)
Fflush(p, j, rc) ==
  LET me == proc[p]
  IN
  /\ me.pc = "written" /\ j \in me.at .. Size
  /\ rc = 0 => j = Size
  /\ file' = Overwrite(file, Changed(me), me.at + 1, j)
  /\ proc' = [proc EXCEPT ![p] = Idle]
  /\ told' = IF Accepts(rc) THEN "stored" ELSE IF rc = 0 THEN "failed" ELSE "io-error"
  /\ kept' = IF me.act = "c"
             THEN IF Accepts(rc) THEN [r \in Rows |-> Unset] ELSE kept
             ELSE Keep(me.id, IF ~Accepts(rc) THEN Unknown
                              ELSE IF me.act = "s" THEN me.val ELSE Unset)
  /\ UNCHANGED version

(* killed, or dead of a wild access: what the library still buffers is     *)
(* lost                                                                    *)
Kill(p) ==
  /\ proc[p].pc # "idle"
  /\ proc' = [proc EXCEPT ![p] = Idle]
  /\ told' = "nothing"
  /\ kept' = IF proc[p].pc = "written" /\ proc[p].act # "c"
             THEN Keep(proc[p].id, Unknown) ELSE kept
  /\ UNCHANGED <<version, file>>

Next ==
  \E p \in Procs :
    \/ \E id \in -1 .. MaxRows :
         \/ Open(p, "c", id, Empty) \/ Open(p, "d", id, Empty)
         \/ \E v \in Values : Open(p, "s", id, v)
    \/ Die(p)
    \/ \E k \in 0 .. Size : Fwrite(p, k) \/ \E rc \in {0, -1} : Fflush(p, k, rc)
    \/ Kill(p)

Spec == Init /\ [][Next]_vars

-----------------------------------------------------------------------------
Entries == [id : Rows, set : {0, 1}, name : Values \cup {Empty}]

Image(f) ==
  /\ DOMAIN f = 1 .. Len(f) /\ Len(f) <= Size
  /\ \A c \in 1 .. Len(f) : f[c] \in IF c % 2 = 1 THEN Entries ELSE Values \cup {Empty}

(* Type invariant: the file and every loaded copy are prefixes of a whole  *)
(* database, and nothing makes the file longer than one.                   *)
TypeOK ==
  /\ version \in Versions
  /\ told \in {"nothing", "stored", "failed", "io-error"}
  /\ Image(file)
  /\ \A p \in Procs :
       /\ proc[p].pc \in {"idle", "opened", "written"}
       /\ proc[p].act \in {"none", "c", "s", "d"}
       /\ proc[p].id \in -1 .. MaxRows /\ proc[p].at \in 0 .. Size
       /\ Image(proc[p].db)
  /\ kept \in [Rows -> Values \cup {Unset, Unknown}]

Whole == Len(file) = Size

Working(p, r) == proc[p].act \in {"s", "d"} /\ proc[p].id = r /\ proc[p].pc = "written"

(* What a command that returned has stored is there for the next one, even *)
(* if commands on other rows were killed, or met an error of the device,   *)
(* half-way through their write.                                           *)
AcknowledgedIsStored ==
  \A r \in Rows :
    kept[r] # Unknown /\ ~(\E p \in Procs : Working(p, r)) =>
      /\ Whole
      /\ IF kept[r] = Unset THEN file[Entry(r)].set = 0
         ELSE /\ file[Entry(r)] = [id |-> r, set |-> 1, name |-> kept[r]]
              /\ file[Email(r)] = kept[r]

(* ex17.c:116, "Already set, delete it first": the entry of a row that is  *)
(* set changes only by a delete of that row, or when create starts over.   *)
OnlyDeleteClears ==
  [][\A r \in Rows :
       Whole /\ Whole' /\ file[Entry(r)].set = 1 /\ file'[Entry(r)] # file[Entry(r)] =>
         \E p \in Procs :
           \/ proc[p].act = "d" /\ proc[p].id = r
           \/ proc[p].act = "c"]_vars

(* ex17.c:92, 96: a set or delete that reports a failure, and met no error *)
(* of the device, has left the file as it found it.  (ex17-old.c takes     *)
(* fflush's success for a failure, when all is written.)                   *)
FailureChangesNothing ==
  [][\A p \in Procs :
       /\ version = "ex17" /\ told' = "failed"
       /\ proc[p].act \in {"s", "d"} /\ proc'[p] = Idle
       => file' = proc[p].db]_vars

(* The number list prints with a row is the number get and set take; only  *)
(* ex17-old.c forgets it.                                                  *)
RowsKnowTheirIds ==
  version = "ex17" =>
  \A r \in Rows : Entry(r) <= Len(file) => file[Entry(r)].id = r

=============================================================================
