--------------------------- MODULE DatabaseProofs ---------------------------
(***************************************************************************)
(* Proofs about Database, for any number of rows, values and processes.    *)
(* What is said of the contents of the file assumes Exclusive: each command*)
(* starts when no other runs.  Without it LostUpdate.cfg shows otherwise.  *)
(***************************************************************************)
EXTENDS Database, TLAPS

-----------------------------------------------------------------------------
(* Cells and images.                                                       *)

Texts == Values \cup {Empty}
Cells == Entries \cup Texts
Fits(c, x) == x \in IF c % 2 = 1 THEN Entries ELSE Texts

(* what the file and the copies of it may be                               *)
Images == {f \in Seq(Cells) : Len(f) <= Size /\ \A c \in 1 .. Len(f) : Fits(c, f[c])}

(* The file has at least one row, of two cells each.                       *)
LEMMA SizeFacts ==
  /\ MaxRows \in Nat /\ MaxRows > 0 /\ Size \in Nat /\ Size > 0 /\ Size = 2 * MaxRows
  /\ 0 \in Rows
BY DatabaseAssumption DEF Size, Rows

(* The cells of a row lie in the file, the first odd, the second even.     *)
LEMMA CellFacts ==
  ASSUME NEW r \in Rows
  PROVE  /\ Entry(r) \in 1 .. Size /\ Email(r) \in 1 .. Size
         /\ Entry(r) % 2 = 1 /\ Email(r) % 2 = 0
         /\ Entry(r) \div 2 = r
BY SizeFacts DEF Rows, Entry, Email

(* Rows share no cells.                                                    *)
LEMMA RowsApart ==
  ASSUME NEW r \in Rows, NEW q \in Rows, r # q
  PROVE  /\ Entry(r) # Entry(q) /\ Email(r) # Email(q)
         /\ Entry(r) # Email(q) /\ Email(r) # Entry(q)
         /\ Entry(r) # Email(r)
BY SizeFacts DEF Rows, Entry, Email

(* Every cell belongs to a row.                                            *)
LEMMA OddCell ==
  ASSUME NEW c \in 1 .. Size, c % 2 = 1
  PROVE  c \div 2 \in Rows
BY SizeFacts DEF Rows

(* Zeroed memory is an image of a row, and so is what the program lays out.*)
LEMMA BlankFacts ==
  /\ \A c \in Nat : Fits(c, Zero(c))
  /\ \A r \in Rows : BlankEntry(r) \in Entries /\ BlankEntry(r).set = 0
  /\ version = "ex17" => \A r \in Rows : BlankEntry(r).id = r
BY SizeFacts DEF Fits, Zero, BlankEntry, BlankEntryOld, Entries, Texts

(* An image of the file is all the type invariant asks of it.              *)
LEMMA ImagesAreImages ==
  ASSUME NEW f \in Images
  PROVE  Image(f) /\ f \in Seq(Cells) /\ Len(f) \in Nat /\ Len(f) <= Size
BY DEF Images, Image, Fits, Texts

(* What is in a cell of an image.                                          *)
LEMMA ImageCell ==
  ASSUME NEW f \in Images, NEW r \in Rows, Len(f) = Size
  PROVE  f[Entry(r)] \in Entries /\ f[Email(r)] \in Texts
<1>1. Entry(r) \in 1 .. Len(f) /\ Email(r) \in 1 .. Len(f)
  BY CellFacts
<1>2. Fits(Entry(r), f[Entry(r)]) /\ Fits(Email(r), f[Email(r)])
  BY <1>1 DEF Images
<1> QED BY <1>2, CellFacts DEF Fits

(* A function on the cells with the right thing in each is an image.       *)
LEMMA MakeImage ==
  ASSUME NEW n \in 0 .. Size, NEW f, DOMAIN f = 1 .. n, f = [c \in 1 .. n |-> f[c]],
         \A c \in 1 .. n : Fits(c, f[c])
  PROVE  f \in Images /\ Len(f) = n
<1>1. n \in Nat /\ n <= Size
  BY SizeFacts
<1>2. \A c \in 1 .. n : f[c] \in Cells
  BY DEF Fits, Cells
<1>3. f \in Seq(Cells) /\ Len(f) = n
  BY <1>1, <1>2
<1> QED BY <1>1, <1>3 DEF Images

(* Database_create lays out a whole image of rows that are not set.        *)
LEMMA CreateFacts ==
  /\ Database_create \in Images /\ Len(Database_create) = Size
  /\ \A r \in Rows : Database_create[Entry(r)] = BlankEntry(r)
<1> DEFINE f == Database_create
<1>1. f = [c \in 1 .. Size |-> IF c % 2 = 1 THEN BlankEntry(c \div 2) ELSE Empty]
  BY DEF Database_create
<1>2. ASSUME NEW c \in 1 .. Size PROVE Fits(c, f[c])
  <2>1. CASE c % 2 = 1
    BY <1>1, <2>1, OddCell, BlankFacts DEF Fits
  <2>2. CASE c % 2 # 1
    BY <1>1, <2>2 DEF Fits, Texts
  <2> QED BY <2>1, <2>2
<1>3. DOMAIN f = 1 .. Size /\ f = [c \in 1 .. Size |-> f[c]]
  BY <1>1
<1>4. \A r \in Rows : f[Entry(r)] = BlankEntry(r)
  BY <1>1, CellFacts
<1> HIDE DEF f
<1>5. f \in Images /\ Len(f) = Size
  BY <1>2, <1>3, MakeImage, SizeFacts
<1> QED BY <1>4, <1>5 DEF f

(* Database_set changes the two cells of one row.                          *)
LEMMA SetFacts ==
  ASSUME NEW db \in Images, Len(db) = Size, NEW r \in Rows, NEW v \in Values
  PROVE  /\ Database_set(db, r, v) \in Images /\ Len(Database_set(db, r, v)) = Size
         /\ Database_set(db, r, v)[Entry(r)] = [id |-> db[Entry(r)].id, set |-> 1, name |-> v]
         /\ Database_set(db, r, v)[Email(r)] = v
         /\ \A c \in 1 .. Size \ {Entry(r), Email(r)} : Database_set(db, r, v)[c] = db[c]
<1> DEFINE f == Database_set(db, r, v)
<1>1. /\ Entry(r) \in 1 .. Size /\ Email(r) \in 1 .. Size /\ Entry(r) # Email(r)
      /\ Entry(r) % 2 = 1 /\ Email(r) % 2 = 0
  <2>1. Entry(r) # Email(r)
    BY DEF Entry, Email, Rows
  <2> QED BY <2>1, CellFacts
<1>2. db \in Seq(Cells) /\ DOMAIN db = 1 .. Size /\ db = [c \in 1 .. Size |-> db[c]]
  BY ImagesAreImages
<1>3. db[Entry(r)] \in Entries
  BY ImageCell
<1>4. db[Entry(r)] = [id |-> db[Entry(r)].id, set |-> db[Entry(r)].set, name |-> db[Entry(r)].name]
      /\ db[Entry(r)].id \in Rows
  BY <1>3 DEF Entries
<1>5. f = [db EXCEPT ![Entry(r)] = [@ EXCEPT !.set = 1, !.name = v], ![Email(r)] = v]
  BY <1>1, <1>2 DEF Database_set
<1>6. /\ DOMAIN f = 1 .. Size /\ f = [c \in 1 .. Size |-> f[c]]
      /\ f[Email(r)] = v /\ f[Entry(r)] = [db[Entry(r)] EXCEPT !.set = 1, !.name = v]
      /\ \A c \in 1 .. Size \ {Entry(r), Email(r)} : f[c] = db[c]
  BY <1>1, <1>2, <1>5
<1> HIDE DEF f
<1>7. f[Entry(r)] = [id |-> db[Entry(r)].id, set |-> 1, name |-> v]
  BY <1>4, <1>6
<1>8. f[Entry(r)] \in Entries
  BY <1>4, <1>7 DEF Entries
<1>9. ASSUME NEW c \in 1 .. Size PROVE Fits(c, f[c])
  <2>1. Fits(c, db[c])
    BY DEF Images
  <2> QED BY <2>1, <1>1, <1>6, <1>8 DEF Fits, Texts
<1>10. f \in Images /\ Len(f) = Size
  BY <1>6, <1>9, MakeImage, SizeFacts
<1> QED BY <1>6, <1>7, <1>10 DEF f

(* So does Database_delete.                                                *)
LEMMA DeleteFacts ==
  ASSUME NEW db \in Images, Len(db) = Size, NEW r \in Rows
  PROVE  /\ Database_delete(db, r) \in Images /\ Len(Database_delete(db, r)) = Size
         /\ Database_delete(db, r)[Entry(r)] = BlankEntry(r)
         /\ \A c \in 1 .. Size \ {Entry(r), Email(r)} : Database_delete(db, r)[c] = db[c]
<1> DEFINE f == Database_delete(db, r)
<1>1. /\ Entry(r) \in 1 .. Size /\ Email(r) \in 1 .. Size /\ Entry(r) # Email(r)
      /\ Entry(r) % 2 = 1 /\ Email(r) % 2 = 0
  <2>1. Entry(r) # Email(r)
    BY DEF Entry, Email, Rows
  <2> QED BY <2>1, CellFacts
<1>2. db \in Seq(Cells) /\ DOMAIN db = 1 .. Size /\ db = [c \in 1 .. Size |-> db[c]]
  BY ImagesAreImages
<1>3. /\ DOMAIN f = 1 .. Size /\ f = [c \in 1 .. Size |-> f[c]]
      /\ f[Email(r)] = Empty /\ f[Entry(r)] = BlankEntry(r)
      /\ \A c \in 1 .. Size \ {Entry(r), Email(r)} : f[c] = db[c]
  BY <1>1, <1>2 DEF Database_delete
<1> HIDE DEF f
<1>4. f[Entry(r)] \in Entries
  BY <1>3, BlankFacts
<1>5. ASSUME NEW c \in 1 .. Size PROVE Fits(c, f[c])
  <2>1. Fits(c, db[c])
    BY DEF Images
  <2> QED BY <2>1, <1>1, <1>3, <1>4 DEF Fits, Texts
<1>6. f \in Images /\ Len(f) = Size
  BY <1>3, <1>5, MakeImage, SizeFacts
<1> QED BY <1>3, <1>6 DEF f

(* What a write leaves in the file: the cells it covered, the rest as it   *)
(* was, and zeros where an earlier truncation left nothing.                *)
LEMMA OverwriteFacts ==
  ASSUME NEW f \in Images, NEW db \in Images, NEW a \in 1 .. Size + 1, NEW b \in 0 .. Size,
         Len(db) = Size
  PROVE  LET g == Overwrite(f, db, a, b) IN
         /\ g \in Images
         /\ Len(g) = IF Len(f) > b THEN Len(f) ELSE b
         /\ \A c \in 1 .. Len(g) :
              g[c] = IF a <= c /\ c <= b THEN db[c]
                     ELSE IF c <= Len(f) THEN f[c] ELSE Zero(c)
<1> DEFINE g == Overwrite(f, db, a, b)
           n == IF Len(f) > b THEN Len(f) ELSE b
<1>1. n \in 0 .. Size /\ n \in Nat
  BY ImagesAreImages, SizeFacts
<1>2. g = [c \in 1 .. n |-> IF a <= c /\ c <= b THEN db[c]
                            ELSE IF c <= Len(f) THEN f[c] ELSE Zero(c)]
  BY DEF Overwrite
<1> HIDE DEF n, g
<1>3. /\ DOMAIN g = 1 .. n /\ g = [c \in 1 .. n |-> g[c]]
      /\ \A c \in 1 .. n : g[c] = IF a <= c /\ c <= b THEN db[c]
                                   ELSE IF c <= Len(f) THEN f[c] ELSE Zero(c)
  BY <1>2
<1>4. ASSUME NEW c \in 1 .. n PROVE Fits(c, g[c])
  <2>1. c \in Nat /\ c > 0 /\ c <= Size
    BY <1>1, SizeFacts
  <2>2. CASE a <= c /\ c <= b
    BY <1>3, <2>1, <2>2 DEF Images
  <2>3. CASE ~(a <= c /\ c <= b) /\ c <= Len(f)
    BY <1>3, <2>1, <2>3 DEF Images
  <2>4. CASE ~(a <= c /\ c <= b) /\ ~(c <= Len(f))
    BY <1>3, <2>1, <2>4, BlankFacts
  <2> QED BY <2>2, <2>3, <2>4
<1>5. g \in Images /\ Len(g) = n
  BY <1>1, <1>3, <1>4, MakeImage
<1> QED BY <1>3, <1>5 DEF n, g

-----------------------------------------------------------------------------
(* The processes.                                                          *)

ProcTypes ==
  [pc : {"idle", "opened", "written"}, act : {"none", "c", "s", "d"},
   id : -1 .. MaxRows, val : Texts, db : Images, at : 0 .. Size]

(* A command under way has the image it loaded, whole, or none if it is to *)
(* create one; and one that has begun to write was not to be refused.      *)
Sane(me) ==
  /\ me \in ProcTypes
  /\ me.pc = "idle" => me = Idle
  /\ me.pc # "idle" =>
       /\ me.act # "none"
       /\ me.act = "c" => me.db = <<>>
       /\ me.act # "c" => Len(me.db) = Size
       /\ me.act = "s" => me.val \in Values
  /\ me.pc = "written" => ~Refuses(me)

TypeInv ==
  /\ version \in Versions
  /\ told \in {"nothing", "stored", "failed", "io-error"}
  /\ file \in Images
  /\ proc \in [Procs -> ProcTypes]
  /\ \A p \in Procs : Sane(proc[p])
  /\ kept \in [Rows -> Values \cup {Unset, Unknown}]

(* A process that is not running is sane.                                  *)
LEMMA IdleFacts == Sane(Idle) /\ Idle.pc = "idle" /\ Idle.act = "none"
<1>1. <<>> \in Images
  <2>1. <<>> \in Seq(Cells) /\ Len(<<>>) = 0
    OBVIOUS
  <2> QED BY <2>1, SizeFacts DEF Images
<1>2. Idle \in ProcTypes
  BY <1>1, SizeFacts DEF Idle, ProcTypes, Texts
<1> QED BY <1>2 DEF Sane, Idle

(* The image a command writes, by what it was asked to do.                 *)
LEMMA ChangedCases ==
  ASSUME NEW me, Sane(me), me.pc # "idle", ~Refuses(me)
  PROVE  \/ me.act = "c" /\ Changed(me) = Database_create
         \/ me.act \in {"s", "d"} /\ me.id \notin Rows /\ Changed(me) = me.db
         \/ /\ me.act = "s" /\ me.id \in Rows /\ me.db[Entry(me.id)].set # 1
            /\ Changed(me) = Database_set(me.db, me.id, me.val)
         \/ /\ me.act = "d" /\ me.id \in Rows
            /\ Changed(me) = Database_delete(me.db, me.id)
<1>1. me.id \in Rows <=> ~(me.id < 0)
  BY SizeFacts DEF Sane, ProcTypes, Refuses, Rows
<1>2. CASE me.act = "c"
  <2>1. Changed(me) = Database_create
    BY <1>2, Zenon DEF Changed, Wild
  <2> QED BY <1>2, <2>1
<1>3. ASSUME me.act \in {"s", "d"}, me.id < 0 PROVE Changed(me) = me.db
  <2>1. Wild(me) /\ me.act # "c"
    BY <1>3 DEF Wild
  <2> QED BY <2>1, Zenon DEF Changed
<1>4. ASSUME me.act = "s", ~(me.id < 0)
      PROVE  Changed(me) = Database_set(me.db, me.id, me.val)
  <2>1. ~Wild(me)
    BY <1>4 DEF Wild
  <2> QED BY <1>4, <2>1, Zenon DEF Changed
<1>5. ASSUME me.act = "d", ~(me.id < 0)
      PROVE  Changed(me) = Database_delete(me.db, me.id)
  <2>1. ~Wild(me)
    BY <1>5 DEF Wild
  <2> QED BY <1>5, <2>1, Zenon DEF Changed
<1>6. me.act \in {"c", "s", "d"}
  BY DEF Sane, ProcTypes
<1>7. me.act = "s" /\ me.id \in Rows => me.db[Entry(me.id)].set # 1
  BY DEF Refuses
<1> QED BY <1>1, <1>2, <1>3, <1>4, <1>5, <1>6, <1>7

(* It is a whole image; outside the row the command is about it is what    *)
(* was loaded; and a set has put the name where no row was set.            *)
LEMMA ChangedFacts ==
  ASSUME NEW me, Sane(me), me.pc # "idle", ~Refuses(me)
  PROVE  /\ Changed(me) \in Images /\ Len(Changed(me)) = Size
         /\ me.act # "c" =>
              \A r \in Rows : r # me.id =>
                /\ Changed(me)[Entry(r)] = me.db[Entry(r)]
                /\ Changed(me)[Email(r)] = me.db[Email(r)]
         /\ me.act = "c" => \A r \in Rows : Changed(me)[Entry(r)] = BlankEntry(r)
         /\ me.act = "d" /\ me.id \in Rows =>
              Changed(me)[Entry(me.id)] = BlankEntry(me.id)
         /\ me.act = "s" /\ me.id \in Rows =>
              /\ me.db[Entry(me.id)].set # 1
              /\ Changed(me)[Entry(me.id)] =
                   [id |-> me.db[Entry(me.id)].id, set |-> 1, name |-> me.val]
              /\ Changed(me)[Email(me.id)] = me.val
<1>1. CASE me.act = "c" /\ Changed(me) = Database_create
  BY <1>1, CreateFacts
<1>2. me.db \in Images /\ (me.act # "c" => Len(me.db) = Size)
      /\ (me.act = "s" => me.val \in Values)
  BY DEF Sane, ProcTypes
<1>3. CASE me.act \in {"s", "d"} /\ me.id \notin Rows /\ Changed(me) = me.db
  BY <1>2, <1>3
<1>4. ASSUME me.id \in Rows, NEW r \in Rows, r # me.id
      PROVE  /\ Entry(r) \in 1 .. Size \ {Entry(me.id), Email(me.id)}
             /\ Email(r) \in 1 .. Size \ {Entry(me.id), Email(me.id)}
  BY <1>4, CellFacts, RowsApart
<1>5. CASE /\ me.act = "s" /\ me.id \in Rows /\ me.db[Entry(me.id)].set # 1
           /\ Changed(me) = Database_set(me.db, me.id, me.val)
  BY <1>2, <1>4, <1>5, SetFacts
<1>6. CASE /\ me.act = "d" /\ me.id \in Rows
           /\ Changed(me) = Database_delete(me.db, me.id)
  BY <1>2, <1>4, <1>6, DeleteFacts
<1> QED BY <1>1, <1>3, <1>5, <1>6, ChangedCases

(* Recording something a row may be relied on to hold keeps kept typed.    *)
LEMMA KeepFacts ==
  ASSUME TypeInv, NEW r, NEW what \in Values \cup {Unset, Unknown}
  PROVE  /\ Keep(r, what) \in [Rows -> Values \cup {Unset, Unknown}]
         /\ \A q \in Rows : q # r => Keep(r, what)[q] = kept[q]
         /\ r \in Rows => Keep(r, what)[r] = what
BY DEF Keep, TypeInv

(* When one process changes and is sane, all are.                          *)
LEMMA OneChanges ==
  ASSUME TypeInv, NEW p \in Procs, NEW me, Sane(me),
         version' = version, proc' = [proc EXCEPT ![p] = me]
  PROVE  /\ proc' \in [Procs -> ProcTypes]
         /\ \A q \in Procs : Sane(proc'[q])
         /\ proc'[p] = me /\ \A q \in Procs : q # p => proc'[q] = proc[q]
<1>1. me \in ProcTypes
  BY DEF Sane
<1> QED BY <1>1 DEF TypeInv

(* A command under way that is not refused: its image and its place.       *)
LEMMA WritingFacts ==
  ASSUME TypeInv, NEW p \in Procs, proc[p].pc # "idle", ~Refuses(proc[p])
  PROVE  /\ Sane(proc[p]) /\ proc[p].db \in Images /\ proc[p].at \in 0 .. Size
         /\ Changed(proc[p]) \in Images /\ Len(Changed(proc[p])) = Size
<1>1. Sane(proc[p]) /\ proc[p] \in ProcTypes
  BY DEF TypeInv
<1> QED BY <1>1, ChangedFacts DEF ProcTypes

(* Database_open.                                                          *)
LEMMA OpenType ==
  ASSUME TypeInv, NEW p \in Procs, NEW act \in {"c", "d", "s"}, NEW id \in -1 .. MaxRows,
         NEW val \in Texts, act = "s" => val \in Values, Open(p, act, id, val)
  PROVE  TypeInv'
<1> DEFINE me == [pc |-> "opened", act |-> act, id |-> id, val |-> val,
                  db |-> IF act = "c" THEN <<>> ELSE file, at |-> 0]
<1>1. <<>> \in Images
  BY IdleFacts DEF Idle, Sane, ProcTypes
<1>2. file \in Images /\ (act # "c" => Len(file) = Size)
  BY ImagesAreImages, SizeFacts DEF TypeInv, Open
<1>3. me \in ProcTypes
  BY <1>1, <1>2, SizeFacts DEF ProcTypes
<1>4. Sane(me)
  BY <1>2, <1>3 DEF Sane
<1>5. proc' = [proc EXCEPT ![p] = me] /\ version' = version
  BY DEF Open
<1> HIDE DEF me
<1>6. proc' \in [Procs -> ProcTypes] /\ \A q \in Procs : Sane(proc'[q])
  BY <1>4, <1>5, OneChanges
<1>7. kept' \in [Rows -> Values \cup {Unset, Unknown}]
  BY DEF Open, TypeInv
<1>8. file' \in Images
  BY <1>1, <1>2 DEF Open
<1> QED BY <1>6, <1>7, <1>8 DEF TypeInv, Open

(* fwrite.                                                                 *)
LEMMA FwriteType ==
  ASSUME TypeInv, NEW p \in Procs, NEW k \in 0 .. Size, Fwrite(p, k)
  PROVE  /\ TypeInv'
         /\ proc'[p] = [proc[p] EXCEPT !.pc = "written", !.at = k]
         /\ \A q \in Procs : q # p => proc'[q] = proc[q]
<1> DEFINE me == [proc[p] EXCEPT !.pc = "written", !.at = k]
<1>1. proc[p].pc = "opened" /\ ~Refuses(proc[p]) /\ Sane(proc[p]) /\ proc[p] \in ProcTypes
  BY DEF Fwrite, TypeInv
<1>2. /\ me \in ProcTypes /\ me.pc = "written" /\ me.at = k
      /\ me.act = proc[p].act /\ me.id = proc[p].id /\ me.val = proc[p].val
      /\ me.db = proc[p].db
  BY <1>1 DEF ProcTypes
<1>3. proc' = [proc EXCEPT ![p] = me] /\ version' = version
  <2>1. proc \in [Procs -> ProcTypes]
    BY DEF TypeInv
  <2> QED BY <2>1 DEF Fwrite
<1> HIDE DEF me
<1>4. Sane(me)
  BY <1>1, <1>2 DEF Sane, Refuses
<1>5. /\ proc' \in [Procs -> ProcTypes] /\ \A q \in Procs : Sane(proc'[q])
      /\ proc'[p] = me /\ \A q \in Procs : q # p => proc'[q] = proc[q]
  BY <1>3, <1>4, OneChanges
<1>6. file' \in Images
  <2>1. 1 \in 1 .. Size + 1 /\ file' = Overwrite(file, Changed(proc[p]), 1, k)
    BY SizeFacts DEF Fwrite
  <2>2. Changed(proc[p]) \in Images /\ Len(Changed(proc[p])) = Size
    BY <1>1, WritingFacts
  <2> QED BY <2>1, <2>2, OverwriteFacts DEF TypeInv
<1> QED BY <1>5, <1>6 DEF TypeInv, Fwrite, me

(* fflush and the end of the command.                                      *)
LEMMA FflushType ==
  ASSUME TypeInv, NEW p \in Procs, NEW n \in 0 .. Size, NEW rc \in {0, -1}, Fflush(p, n, rc)
  PROVE  /\ TypeInv'
         /\ proc'[p] = Idle /\ \A q \in Procs : q # p => proc'[q] = proc[q]
<1>1. /\ proc[p].pc = "written" /\ ~Refuses(proc[p]) /\ Sane(proc[p])
      /\ proc' = [proc EXCEPT ![p] = Idle] /\ version' = version
  BY DEF Fflush, TypeInv, Sane
<1>2. /\ proc' \in [Procs -> ProcTypes] /\ \A q \in Procs : Sane(proc'[q])
      /\ proc'[p] = Idle /\ \A q \in Procs : q # p => proc'[q] = proc[q]
  BY <1>1, IdleFacts, OneChanges
<1>3. file' \in Images
  <2>1. /\ proc[p].at + 1 \in 1 .. Size + 1
        /\ file' = Overwrite(file, Changed(proc[p]), proc[p].at + 1, n)
    BY <1>1, SizeFacts, WritingFacts DEF Fflush
  <2>2. Changed(proc[p]) \in Images /\ Len(Changed(proc[p])) = Size
    BY <1>1, WritingFacts
  <2> QED BY <2>1, <2>2, OverwriteFacts DEF TypeInv
<1>4. kept' \in [Rows -> Values \cup {Unset, Unknown}]
  <2>1. CASE proc[p].act = "c"
    BY <2>1 DEF Fflush, TypeInv
  <2>2. CASE proc[p].act # "c"
    <3>1. proc[p].act = "s" => proc[p].val \in Values
      BY <1>1 DEF Sane
    <3>2. PICK what \in Values \cup {Unset, Unknown} : kept' = Keep(proc[p].id, what)
      BY <2>2, <3>1 DEF Fflush
    <3> QED BY <3>2, KeepFacts
  <2> QED BY <2>1, <2>2
<1>5. told' \in {"nothing", "stored", "failed", "io-error"}
  BY DEF Fflush
<1> QED BY <1>1, <1>2, <1>3, <1>4, <1>5 DEF TypeInv

(* The end of a command that dies or is killed.                            *)
LEMMA EndType ==
  ASSUME TypeInv, NEW p \in Procs, Die(p) \/ Kill(p)
  PROVE  /\ TypeInv'
         /\ proc'[p] = Idle /\ \A q \in Procs : q # p => proc'[q] = proc[q]
<1>1. proc' = [proc EXCEPT ![p] = Idle] /\ UNCHANGED <<version, file>>
  BY DEF Die, Kill
<1>2. /\ proc' \in [Procs -> ProcTypes] /\ \A q \in Procs : Sane(proc'[q])
      /\ proc'[p] = Idle /\ \A q \in Procs : q # p => proc'[q] = proc[q]
  BY <1>1, IdleFacts, OneChanges
<1>3. kept' = kept \/ kept' = Keep(proc[p].id, Unknown)
  BY DEF Die, Kill
<1>4. kept' \in [Rows -> Values \cup {Unset, Unknown}]
  BY <1>3, KeepFacts DEF TypeInv
<1>5. told' \in {"nothing", "stored", "failed", "io-error"}
  BY DEF Die, Kill
<1> QED BY <1>1, <1>2, <1>4, <1>5 DEF TypeInv

(* The three ways to open the database, as Next has them.                  *)
Opens(p, act, id, val) ==
  /\ act \in {"c", "d", "s"} /\ id \in -1 .. MaxRows
  /\ val \in Texts /\ (act = "s" => val \in Values)
  /\ Open(p, act, id, val)

(* A step is a step of one process.                                        *)
LEMMA NextCases ==
  ASSUME Next
  PROVE  \E p \in Procs :
           \/ \E act, id, val : Opens(p, act, id, val)
           \/ Die(p) \/ Kill(p)
           \/ \E k \in 0 .. Size : Fwrite(p, k) \/ \E rc \in {0, -1} : Fflush(p, k, rc)
<1>1. Empty \in Texts /\ Values \subseteq Texts
  BY DEF Texts
<1> QED BY <1>1 DEF Next, Opens

(* All commands at once, in whatever order, leave the file and every copy  *)
(* of it an image, of the right length.                                    *)
LEMMA TypeInvariant == Spec => []TypeInv
<1>1. Init => TypeInv
  <2> SUFFICES ASSUME Init PROVE TypeInv
    OBVIOUS
  <2>1. Idle \in ProcTypes /\ <<>> \in Images
    BY IdleFacts DEF Sane, Idle, ProcTypes
  <2> QED BY <2>1, IdleFacts DEF Init, TypeInv
<1>2. TypeInv /\ [Next]_vars => TypeInv'
  <2>1. ASSUME TypeInv, NEW p \in Procs, NEW act, NEW id, NEW val, Opens(p, act, id, val)
        PROVE  TypeInv'
    BY <2>1, OpenType DEF Opens
  <2>2. CASE UNCHANGED vars
    BY <2>2 DEF vars, TypeInv, Sane, Refuses
  <2> QED BY <2>1, <2>2, NextCases, FwriteType, FflushType, EndType
<1> QED BY <1>1, <1>2, PTL DEF Spec

(* The file and every loaded copy are prefixes of a database, also while   *)
(* commands overlap.                                                       *)
THEOREM TypeCorrect == Spec => []TypeOK
<1>1. TypeInv => TypeOK
  BY ImagesAreImages DEF TypeInv, ProcTypes, TypeOK
<1> QED BY <1>1, TypeInvariant, PTL

-----------------------------------------------------------------------------
(* The file, when commands run one at a time.                              *)

(* how much of the new image has come to lie over the old one              *)
Mixture(me, n) == Overwrite(me.db, Changed(me), 1, n)

(* What a command under way has made of the file: nothing yet, or the new  *)
(* image over the old one, as far as it has come.                          *)
InStep(me) ==
  /\ me.pc = "opened" => file = me.db
  /\ me.pc = "written" => file = Mixture(me, me.at)

(* A database that holds what the user may rely on.                        *)
Holds(f, r, what) ==
  IF what = Unset THEN f[Entry(r)].set = 0
  ELSE /\ f[Entry(r)] = [id |-> r, set |-> 1, name |-> what]
       /\ f[Email(r)] = what

HoldsKept(f) ==
  \A r \in Rows :
    kept[r] # Unknown => version = "ex17" /\ Len(f) = Size /\ Holds(f, r, kept[r])

IdsRight(f) ==
  version = "ex17" => \A r \in Rows : Entry(r) <= Len(f) => f[Entry(r)].id = r

(* What the user relies on is in the file between commands, and in the     *)
(* image the running command loaded.                                       *)
Inv ==
  /\ TypeInv
  /\ \A p, q \in Procs : proc[p].pc # "idle" /\ proc[q].pc # "idle" => p = q
  /\ \A p \in Procs :
       proc[p].pc # "idle" =>
         InStep(proc[p]) /\ HoldsKept(proc[p].db) /\ IdsRight(proc[p].db)
  /\ (\A p \in Procs : proc[p].pc = "idle") => HoldsKept(file)
  /\ IdsRight(file)

(* Writing on where the last write ended is one longer write.              *)
LEMMA OverwriteTwice ==
  ASSUME NEW db \in Images, NEW new \in Images, Len(new) = Size,
         NEW a \in 0 .. Size, NEW b \in a .. Size
  PROVE  Overwrite(Overwrite(db, new, 1, a), new, a + 1, b) = Overwrite(db, new, 1, b)
<1> DEFINE f == Overwrite(db, new, 1, a)
           g == Overwrite(f, new, a + 1, b)
           h == Overwrite(db, new, 1, b)
<1>1. /\ a \in Nat /\ b \in Nat /\ a <= b /\ b <= Size /\ Size \in Nat /\ Len(db) \in Nat
      /\ 1 \in 1 .. Size + 1 /\ a + 1 \in 1 .. Size + 1 /\ b \in 0 .. Size
  BY SizeFacts, ImagesAreImages
<1>2. /\ f \in Images /\ Len(f) = IF Len(db) > a THEN Len(db) ELSE a
      /\ \A c \in 1 .. Len(f) :
           f[c] = IF 1 <= c /\ c <= a THEN new[c]
                  ELSE IF c <= Len(db) THEN db[c] ELSE Zero(c)
  BY <1>1, OverwriteFacts
<1> HIDE DEF f
<1>3. /\ g \in Images /\ Len(g) = IF Len(f) > b THEN Len(f) ELSE b
      /\ \A c \in 1 .. Len(g) :
           g[c] = IF a + 1 <= c /\ c <= b THEN new[c]
                  ELSE IF c <= Len(f) THEN f[c] ELSE Zero(c)
  BY <1>1, <1>2, OverwriteFacts
<1>4. /\ h \in Images /\ Len(h) = IF Len(db) > b THEN Len(db) ELSE b
      /\ \A c \in 1 .. Len(h) :
           h[c] = IF 1 <= c /\ c <= b THEN new[c]
                  ELSE IF c <= Len(db) THEN db[c] ELSE Zero(c)
  BY <1>1, OverwriteFacts
<1> HIDE DEF g, h
<1>5. Len(g) = Len(h) /\ Len(g) \in Nat
  BY <1>1, <1>2, <1>3, <1>4
<1>6. ASSUME NEW c \in 1 .. Len(g) PROVE g[c] = h[c]
  <2>1. c \in Nat /\ c >= 1 /\ c <= Len(h)
    BY <1>5
  <2>2. CASE c <= a
    <3>1. c <= Len(f) /\ c \in 1 .. Len(f) /\ f[c] = new[c]
      BY <1>1, <1>2, <2>1, <2>2
    <3> QED BY <3>1, <1>1, <1>3, <1>4, <1>5, <2>1, <2>2
  <2>3. CASE a < c /\ c <= b
    BY <1>1, <1>3, <1>4, <1>5, <2>1, <2>3
  <2>4. CASE b < c
    <3>1. c <= Len(db) /\ c <= Len(f) /\ c \in 1 .. Len(f)
      BY <1>1, <1>2, <1>4, <2>1, <2>4
    <3>2. f[c] = db[c]
      BY <3>1, <1>1, <1>2, <2>1, <2>4
    <3> QED BY <3>1, <3>2, <1>1, <1>3, <1>4, <1>5, <2>1, <2>4
  <2> QED BY <1>1, <2>1, <2>2, <2>3, <2>4
<1>7. g \in Seq(Cells) /\ h \in Seq(Cells)
  BY <1>3, <1>4, ImagesAreImages
<1> QED BY <1>5, <1>6, <1>7 DEF f, g, h

(* However far the new image has come over the old one, a cell is new as   *)
(* far as it has, old beyond, and zero where there was nothing.            *)
LEMMA MixtureCells ==
  ASSUME NEW me, Sane(me), me.pc # "idle", ~Refuses(me), NEW n \in 0 .. Size
  PROVE  /\ Mixture(me, n) \in Images
         /\ Len(Mixture(me, n)) = IF Len(me.db) > n THEN Len(me.db) ELSE n
         /\ \A c \in 1 .. Len(Mixture(me, n)) :
              Mixture(me, n)[c] = IF 1 <= c /\ c <= n THEN Changed(me)[c]
                                  ELSE IF c <= Len(me.db) THEN me.db[c] ELSE Zero(c)
<1>1. PICK db, new : db = me.db /\ new = Changed(me)
  OBVIOUS
<1>2. db \in Images /\ new \in Images /\ Len(new) = Size /\ 1 \in 1 .. Size + 1
  <2>1. new \in Images /\ Len(new) = Size
    BY <1>1, ChangedFacts
  <2>2. db \in Images
    BY <1>1 DEF Sane, ProcTypes
  <2> QED BY <2>1, <2>2, SizeFacts
<1>3. LET g == Overwrite(db, new, 1, n) IN
      /\ g \in Images
      /\ Len(g) = IF Len(db) > n THEN Len(db) ELSE n
      /\ \A c \in 1 .. Len(g) :
           g[c] = IF 1 <= c /\ c <= n THEN new[c]
                  ELSE IF c <= Len(db) THEN db[c] ELSE Zero(c)
  BY <1>2, OverwriteFacts
<1>4. Mixture(me, n) = Overwrite(db, new, 1, n)
  BY <1>1 DEF Mixture
<1> QED BY <1>1, <1>3, <1>4

(* So the rows keep their numbers, the rows the command is not about keep  *)
(* their cells, and in the end all is new.                                 *)
LEMMA MixtureFacts ==
  ASSUME NEW me, Sane(me), me.pc # "idle", ~Refuses(me), NEW n \in 0 .. Size
  PROVE  /\ IdsRight(me.db) => IdsRight(Mixture(me, n))
         /\ me.act # "c" =>
              /\ Len(Mixture(me, n)) = Size
              /\ \A r \in Rows : r # me.id =>
                   /\ Mixture(me, n)[Entry(r)] = me.db[Entry(r)]
                   /\ Mixture(me, n)[Email(r)] = me.db[Email(r)]
         /\ n = Size =>
              /\ Len(Mixture(me, n)) = Size
              /\ \A r \in Rows :
                   /\ Mixture(me, n)[Entry(r)] = Changed(me)[Entry(r)]
                   /\ Mixture(me, n)[Email(r)] = Changed(me)[Email(r)]
<1> DEFINE g == Mixture(me, n)
           new == Changed(me)
<1>1. /\ me.db \in Images /\ (me.act # "c" => Len(me.db) = Size)
      /\ me.act \in {"c", "s", "d"}
      /\ Len(me.db) \in Nat /\ Len(me.db) <= Size
  BY ImagesAreImages DEF Sane, ProcTypes
<1>2. /\ g \in Images /\ Len(g) = IF Len(me.db) > n THEN Len(me.db) ELSE n
      /\ \A c \in 1 .. Len(g) :
           g[c] = IF 1 <= c /\ c <= n THEN new[c]
                  ELSE IF c <= Len(me.db) THEN me.db[c] ELSE Zero(c)
  BY MixtureCells
<1> HIDE DEF g
<1>3. Len(g) \in Nat /\ n \in Nat /\ Size \in Nat
  BY <1>2, ImagesAreImages, SizeFacts
<1>4. \A c \in 1 .. Len(g) :
        (c <= n /\ g[c] = new[c]) \/ (c <= Len(me.db) /\ g[c] = me.db[c])
  BY <1>1, <1>2, <1>3
<1>5. ASSUME me.act # "c"
      PROVE  /\ Len(g) = Size
             /\ \A r \in Rows : r # me.id =>
                  g[Entry(r)] = me.db[Entry(r)] /\ g[Email(r)] = me.db[Email(r)]
  <2>1. Len(g) = Size
    BY <1>1, <1>2, <1>3, <1>5
  <2>2. ASSUME NEW r \in Rows, r # me.id
        PROVE  g[Entry(r)] = me.db[Entry(r)] /\ g[Email(r)] = me.db[Email(r)]
    <3>1. Entry(r) \in 1 .. Len(g) /\ Email(r) \in 1 .. Len(g)
      BY <2>1, CellFacts
    <3>2. new[Entry(r)] = me.db[Entry(r)] /\ new[Email(r)] = me.db[Email(r)]
      BY <1>5, <2>2, ChangedFacts
    <3> QED BY <3>1, <3>2, <1>4
  <2> QED BY <2>1, <2>2
<1>6. ASSUME n = Size
      PROVE  /\ Len(g) = Size
             /\ \A r \in Rows :
                  g[Entry(r)] = new[Entry(r)] /\ g[Email(r)] = new[Email(r)]
  <2>1. Len(g) = Size
    BY <1>1, <1>2, <1>3, <1>6
  <2>2. ASSUME NEW c \in 1 .. Size PROVE g[c] = new[c]
    BY <1>2, <1>3, <1>6, <2>1
  <2> QED BY <2>1, <2>2, CellFacts
<1>7. ASSUME IdsRight(me.db) PROVE IdsRight(g)
  <2> SUFFICES ASSUME version = "ex17", NEW r \in Rows, Entry(r) <= Len(g)
               PROVE  g[Entry(r)].id = r
    BY DEF IdsRight
  <2>1. Entry(r) \in 1 .. Len(g)
    BY <1>3, CellFacts
  <2>2. Entry(r) <= Len(me.db) => me.db[Entry(r)].id = r
    BY <1>7 DEF IdsRight
  <2>3. BlankEntry(r).id = r
    BY BlankFacts
  <2>4. new[Entry(r)].id = r
    <3>1. CASE me.act = "c"
      BY <3>1, <2>3, ChangedFacts
    <3>2. CASE me.act # "c"
      <4>1. me.db[Entry(r)].id = r
        BY <1>1, <2>2, <3>2, CellFacts
      <4>2. CASE r # me.id
        BY <4>1, <4>2, <3>2, ChangedFacts
      <4>3. CASE r = me.id /\ me.act = "s"
        <5>1. new[Entry(r)] = [id |-> me.db[Entry(r)].id, set |-> 1, name |-> me.val]
          BY <4>3, ChangedFacts
        <5> QED BY <5>1, <4>1
      <4>4. CASE r = me.id /\ me.act = "d"
        BY <4>4, <2>3, ChangedFacts
      <4> QED BY <1>1, <3>2, <4>2, <4>3, <4>4
    <3> QED BY <3>1, <3>2
  <2> QED BY <2>1, <2>2, <2>4, <1>4
<1> QED BY <1>5, <1>6, <1>7 DEF g

(* What the invariant says of the one command under way.                   *)
LEMMA RunningFacts ==
  ASSUME Inv, NEW p \in Procs, proc[p].pc # "idle"
  PROVE  /\ Sane(proc[p]) /\ InStep(proc[p])
         /\ HoldsKept(proc[p].db) /\ IdsRight(proc[p].db)
         /\ \A q \in Procs : q # p => proc[q].pc = "idle"
         /\ proc[p].act = "c" => \A r \in Rows : kept[r] = Unknown
<1>1. /\ Sane(proc[p]) /\ InStep(proc[p])
      /\ HoldsKept(proc[p].db) /\ IdsRight(proc[p].db)
      /\ \A q \in Procs : q # p => proc[q].pc = "idle"
  BY DEF Inv, TypeInv
<1>2. ASSUME proc[p].act = "c", NEW r \in Rows, kept[r] # Unknown PROVE FALSE
  <2>1. Len(proc[p].db) = 0
    BY <1>1, <1>2 DEF Sane
  <2>2. Len(proc[p].db) = Size
    BY <1>1, <1>2 DEF HoldsKept
  <2> QED BY <2>1, <2>2, SizeFacts
<1> QED BY <1>1, <1>2

(* What the user relies on in other rows is there all the while.           *)
LEMMA OthersHeld ==
  ASSUME Inv, NEW p \in Procs, proc[p].pc # "idle", ~Refuses(proc[p]), NEW n \in 0 .. Size,
         NEW r \in Rows, r # proc[p].id, kept[r] # Unknown
  PROVE  /\ version = "ex17"
         /\ Len(Mixture(proc[p], n)) = Size
         /\ Holds(Mixture(proc[p], n), r, kept[r])
<1>1. Sane(proc[p]) /\ proc[p].act # "c"
  BY RunningFacts
<1>2. version = "ex17" /\ Holds(proc[p].db, r, kept[r])
  BY RunningFacts DEF HoldsKept
<1>3. /\ Len(Mixture(proc[p], n)) = Size
      /\ Mixture(proc[p], n)[Entry(r)] = proc[p].db[Entry(r)]
      /\ Mixture(proc[p], n)[Email(r)] = proc[p].db[Email(r)]
  BY <1>1, MixtureFacts
<1> QED BY <1>2, <1>3 DEF Holds

(* When a command has ended, only the file matters.                        *)
LEMMA Ended ==
  ASSUME Inv, NEW p \in Procs, proc[p].pc # "idle", TypeInv',
         proc'[p] = Idle, \A q \in Procs : q # p => proc'[q] = proc[q],
         HoldsKept(file)', IdsRight(file)'
  PROVE  Inv'
<1>1. \A q \in Procs : proc'[q].pc = "idle"
  BY RunningFacts, IdleFacts
<1> QED BY <1>1 DEF Inv

(* Database_open: what is loaded is what is in the file.                   *)
LEMMA OpenStep ==
  ASSUME Exclusive, Inv, NEW p \in Procs, NEW act, NEW id, NEW val, Opens(p, act, id, val)
  PROVE  Inv'
<1>1. TypeInv'
  BY OpenType DEF Opens, Inv
<1>2. \A q \in Procs : proc[q].pc = "idle"
  BY IdleFacts DEF Opens, Open
<1>3. HoldsKept(file) /\ IdsRight(file)
  BY <1>2 DEF Inv
<1>4. /\ proc'[p].pc = "opened" /\ proc'[p].db = file' /\ version' = version
      /\ \A q \in Procs : q # p => proc'[q] = proc[q]
  BY DEF Opens, Open, Inv, TypeInv
<1>5. CASE act = "c"
  <2>1. file' = <<>> /\ \A r \in Rows : kept'[r] = Unknown
    BY <1>5 DEF Opens, Open
  <2>2. \A r \in Rows : ~(Entry(r) <= 0)
    BY CellFacts
  <2>3. HoldsKept(file)' /\ IdsRight(file)'
    BY <2>1, <2>2 DEF HoldsKept, IdsRight
  <2>4. HoldsKept(proc[p].db)' /\ IdsRight(proc[p].db)' /\ InStep(proc[p])'
    BY <2>3, <1>4 DEF HoldsKept, IdsRight, InStep
  <2> QED BY <1>1, <1>2, <1>4, <2>3, <2>4 DEF Inv
<1>6. CASE act # "c"
  <2>1. file' = file /\ kept' = kept
    BY <1>6 DEF Opens, Open
  <2>2. HoldsKept(file)' /\ IdsRight(file)'
    BY <2>1, <1>3, <1>4 DEF HoldsKept, IdsRight
  <2>3. HoldsKept(proc[p].db)' /\ IdsRight(proc[p].db)' /\ InStep(proc[p])'
    BY <2>2, <1>4 DEF HoldsKept, IdsRight, InStep
  <2> QED BY <1>1, <1>2, <1>4, <2>2, <2>3 DEF Inv
<1> QED BY <1>5, <1>6

(* The refusal: nothing has been written.                                  *)
LEMMA DieStep ==
  ASSUME Inv, NEW p \in Procs, Die(p)
  PROVE  Inv' /\ file' = proc[p].db
<1>1. /\ TypeInv' /\ proc'[p] = Idle
      /\ \A q \in Procs : q # p => proc'[q] = proc[q]
  BY EndType DEF Inv
<1>2. proc[p].pc = "opened" /\ UNCHANGED <<version, file, kept>>
  BY DEF Die
<1>3. file = proc[p].db /\ HoldsKept(file) /\ IdsRight(file)
  BY <1>2, RunningFacts DEF InStep
<1>4. HoldsKept(file)' /\ IdsRight(file)'
  BY <1>2, <1>3 DEF HoldsKept, IdsRight
<1> QED BY <1>1, <1>2, <1>3, <1>4, Ended

(* fwrite: the new image begins to come over the old one.                  *)
LEMMA FwriteStep ==
  ASSUME Inv, NEW p \in Procs, NEW k \in 0 .. Size, Fwrite(p, k)
  PROVE  Inv' /\ file = proc[p].db /\ file' = Mixture(proc[p], k)
<1> DEFINE me == proc[p]
<1>1. /\ me.pc = "opened" /\ ~Refuses(me) /\ UNCHANGED <<version, kept>>
      /\ file' = Overwrite(file, Changed(me), 1, k)
  BY DEF Fwrite
<1>2. /\ TypeInv' /\ proc'[p] = [me EXCEPT !.pc = "written", !.at = k]
      /\ \A q \in Procs : q # p => proc'[q] = proc[q]
  BY FwriteType DEF Inv
<1>3. /\ Sane(me) /\ file = me.db /\ HoldsKept(me.db) /\ IdsRight(me.db)
      /\ \A q \in Procs : q # p => proc[q].pc = "idle"
  BY <1>1, RunningFacts DEF InStep
<1>4. file' = Mixture(me, k)
  BY <1>1, <1>3 DEF Mixture
<1>5. /\ proc'[p].pc = "written" /\ proc'[p].at = k /\ proc'[p].db = me.db
      /\ proc'[p].act = me.act /\ proc'[p].id = me.id /\ proc'[p].val = me.val
  BY <1>2, <1>3 DEF Sane, ProcTypes
<1>6. Changed(proc[p])' = Changed(me)
  BY <1>1, <1>5, Zenon DEF Changed, Wild, Database_create, Database_set, Database_delete,
     BlankEntry
<1>7. InStep(proc[p])'
  BY <1>4, <1>5, <1>6 DEF InStep, Mixture
<1>8. HoldsKept(proc[p].db)' /\ IdsRight(proc[p].db)'
  BY <1>1, <1>3, <1>5 DEF HoldsKept, IdsRight
<1>9. IdsRight(file)'
  <2>1. IdsRight(Mixture(me, k))
    BY <1>1, <1>3, MixtureFacts
  <2> QED BY <2>1, <1>1, <1>4 DEF IdsRight
<1>10. \A q \in Procs : proc'[q].pc # "idle" => q = p
  BY <1>2, <1>3
<1>11. TypeInv' /\ p \in Procs /\ proc'[p].pc # "idle"
  BY <1>2, <1>5
<1>12. Inv'
  BY <1>7, <1>8, <1>9, <1>10, <1>11 DEF Inv
<1> QED BY <1>3, <1>4, <1>12

(* fflush and the end: the rest of the image is written, or what the user  *)
(* may rely on is taken back.                                              *)
LEMMA FflushStep ==
  ASSUME Inv, NEW p \in Procs, NEW n \in 0 .. Size, NEW rc \in {0, -1}, Fflush(p, n, rc)
  PROVE  /\ Inv'
         /\ file = Mixture(proc[p], proc[p].at) /\ file' = Mixture(proc[p], n)
<1> DEFINE me == proc[p]
<1>1. /\ TypeInv' /\ proc'[p] = Idle
      /\ \A q \in Procs : q # p => proc'[q] = proc[q]
  BY FflushType DEF Inv
<1>2. me.pc = "written" /\ version' = version
  BY DEF Fflush
<1>3. /\ Sane(me) /\ ~Refuses(me) /\ file = Mixture(me, me.at) /\ IdsRight(me.db)
      /\ (me.act = "c" => \A r \in Rows : kept[r] = Unknown)
  BY <1>2, RunningFacts DEF InStep, Sane
<1>4. me.at \in 0 .. Size /\ n \in me.at .. Size /\ me.db \in Images /\ me.id \in -1 .. MaxRows
      /\ me.act \in {"none", "c", "s", "d"}
  BY <1>3 DEF Sane, ProcTypes, Fflush
<1>5. file' = Mixture(me, n)
  <2>1. Changed(me) \in Images /\ Len(Changed(me)) = Size
    BY <1>2, <1>3, ChangedFacts
  <2>2. file' = Overwrite(file, Changed(me), me.at + 1, n)
    BY DEF Fflush
  <2> QED BY <2>1, <2>2, <1>3, <1>4, OverwriteTwice DEF Mixture
<1>6. IdsRight(file)'
  <2>1. IdsRight(Mixture(me, n))
    BY <1>2, <1>3, MixtureFacts
  <2> QED BY <2>1, <1>2, <1>5 DEF IdsRight
<1>7. ASSUME Accepts(rc) PROVE version = "ex17" /\ n = Size
  BY <1>7, SizeFacts DEF Accepts, AcceptsOld, Fflush
<1>8. kept' = IF me.act = "c"
              THEN IF Accepts(rc) THEN [r \in Rows |-> Unset] ELSE kept
              ELSE Keep(me.id, IF ~Accepts(rc) THEN Unknown
                               ELSE IF me.act = "s" THEN me.val ELSE Unset)
  BY DEF Fflush
<1>9. ASSUME NEW r \in Rows, kept'[r] # Unknown
      PROVE  version = "ex17" /\ Len(file') = Size /\ Holds(file', r, kept'[r])
  <2>1. CASE me.act = "c"
    <3>1. Accepts(rc) /\ kept'[r] = Unset
      BY <1>3, <1>8, <1>9, <2>1
    <3>2. Len(file') = Size /\ file'[Entry(r)] = Changed(me)[Entry(r)]
      BY <3>1, <1>2, <1>3, <1>5, <1>7, MixtureFacts
    <3>3. file'[Entry(r)] = BlankEntry(r)
      BY <3>2, <2>1, <1>2, <1>3, ChangedFacts
    <3> QED BY <3>1, <3>2, <3>3, <1>7, BlankFacts DEF Holds
  <2>2. CASE me.act # "c" /\ r # me.id
    <3>1. kept'[r] = kept[r]
      BY <1>8, <2>2 DEF Keep
    <3> QED BY <3>1, <1>2, <1>3, <1>5, <1>9, <2>2, OthersHeld
  <2>3. CASE me.act # "c" /\ r = me.id
    <3>1. /\ Accepts(rc)
          /\ kept'[r] = IF me.act = "s" THEN me.val ELSE Unset
      BY <1>8, <1>9, <2>3 DEF Keep
    <3>2. /\ version = "ex17" /\ Len(file') = Size
          /\ file'[Entry(r)] = Changed(me)[Entry(r)] /\ file'[Email(r)] = Changed(me)[Email(r)]
      BY <3>1, <1>2, <1>3, <1>5, <1>7, MixtureFacts
    <3>3. CASE me.act = "s"
      <4>1. /\ file'[Entry(r)] = [id |-> me.db[Entry(r)].id, set |-> 1, name |-> me.val]
            /\ file'[Email(r)] = me.val
        BY <3>2, <3>3, <2>3, <1>2, <1>3, ChangedFacts
      <4>2. me.db[Entry(r)].id = r
        <5>1. Entry(r) <= Len(me.db)
          BY <1>2, <1>3, <2>3, CellFacts DEF Sane
        <5> QED BY <5>1, <3>2, <1>3 DEF IdsRight
      <4>3. kept'[r] = me.val
        BY <3>1, <3>3
      <4>4. kept'[r] # Unset
        BY <4>3, <3>3, <1>2, <1>3, DatabaseAssumption DEF Sane
      <4> QED BY <4>1, <4>2, <4>3, <4>4, <3>2 DEF Holds
    <3>4. CASE me.act = "d"
      <4>1. file'[Entry(r)] = BlankEntry(r) /\ kept'[r] = Unset
        BY <3>1, <3>2, <3>4, <2>3, <1>2, <1>3, ChangedFacts
      <4> QED BY <4>1, <3>2, BlankFacts DEF Holds
    <3> QED BY <3>3, <3>4, <1>2, <1>3, <1>4, <2>3 DEF Sane
  <2> QED BY <2>1, <2>2, <2>3
<1>10. HoldsKept(file)'
  BY <1>2, <1>9 DEF HoldsKept, Holds
<1> QED BY <1>1, <1>2, <1>3, <1>5, <1>6, <1>10, Ended

(* Killed: what the command has written so far stays, and only its own row *)
(* is no longer to be relied on.                                           *)
LEMMA KillStep ==
  ASSUME Inv, NEW p \in Procs, Kill(p)
  PROVE  Inv'
<1> DEFINE me == proc[p]
<1>1. /\ TypeInv' /\ proc'[p] = Idle
      /\ \A q \in Procs : q # p => proc'[q] = proc[q]
  BY EndType DEF Inv
<1>2. me.pc # "idle" /\ UNCHANGED <<version, file>>
  BY DEF Kill
<1>3. /\ Sane(me) /\ InStep(me) /\ HoldsKept(me.db) /\ IdsRight(me.db)
      /\ (me.act = "c" => \A r \in Rows : kept[r] = Unknown)
      /\ me.pc \in {"opened", "written"} /\ me.at \in 0 .. Size
  BY <1>2, RunningFacts DEF Sane, ProcTypes
<1>4. CASE me.pc = "opened"
  <2>1. kept' = kept /\ file = me.db
    BY <1>3, <1>4 DEF Kill, InStep
  <2>2. HoldsKept(file)' /\ IdsRight(file)'
    BY <2>1, <1>2, <1>3 DEF HoldsKept, IdsRight
  <2> QED BY <2>2, <1>1, <1>2, Ended
<1>5. CASE me.pc = "written"
  <2>1. ~Refuses(me) /\ file = Mixture(me, me.at)
    BY <1>3, <1>5 DEF Sane, InStep
  <2>2. IdsRight(file)
    BY <2>1, <1>2, <1>3, MixtureFacts
  <2>3. ASSUME NEW r \in Rows, kept'[r] # Unknown
        PROVE  version = "ex17" /\ Len(file) = Size /\ Holds(file, r, kept'[r])
    <3>1. me.act # "c" /\ r # me.id /\ kept'[r] = kept[r]
      BY <1>3, <1>5, <2>3 DEF Kill, Keep
    <3> QED BY <3>1, <2>1, <2>3, <1>2, <1>3, OthersHeld
  <2>4. HoldsKept(file)'
    BY <2>3, <1>2 DEF HoldsKept, Holds
  <2>5. IdsRight(file)'
    BY <2>2, <1>2 DEF IdsRight
  <2> QED BY <2>4, <2>5, <1>1, <1>2, Ended
<1> QED BY <1>3, <1>4, <1>5

(* Commands that run one at a time, killed or met by an error of the device*)
(* anywhere, leave in the file what the user may rely on.                  *)
LEMMA InductiveInvariant ==
  ASSUME Exclusive
  PROVE  Spec => []Inv
<1>1. Init => Inv
  <2> SUFFICES ASSUME Init PROVE Inv
    OBVIOUS
  <2>1. TypeInv
    <3>1. Idle \in ProcTypes /\ <<>> \in Images
      BY IdleFacts DEF Sane, Idle, ProcTypes
    <3> QED BY <3>1, IdleFacts DEF Init, TypeInv
  <2>2. \A p \in Procs : proc[p].pc = "idle"
    BY IdleFacts DEF Init
  <2>3. HoldsKept(file)
    BY DEF Init, HoldsKept
  <2>4. IdsRight(file)
    <3>1. \A r \in Rows : ~(Entry(r) <= Len(file))
      BY CellFacts DEF Init
    <3> QED BY <3>1 DEF IdsRight
  <2> QED BY <2>1, <2>2, <2>3, <2>4 DEF Inv
<1>2. Inv /\ [Next]_vars => Inv'
  <2>1. ASSUME Inv, Next PROVE Inv'
    BY <2>1, NextCases, OpenStep, DieStep, FwriteStep, FflushStep, KillStep
  <2>2. ASSUME Inv, UNCHANGED vars PROVE Inv'
    <3>1. TypeInv'
      BY <2>2 DEF vars, Inv, TypeInv, Sane, Refuses
    <3>2. (\A p \in Procs : proc[p].pc = "idle")' => HoldsKept(file)'
      BY <2>2 DEF vars, Inv, HoldsKept, Holds
    <3>3. IdsRight(file)'
      BY <2>2 DEF vars, Inv, IdsRight
    <3>4. ASSUME NEW p \in Procs, proc'[p].pc # "idle"
          PROVE  InStep(proc[p])' /\ HoldsKept(proc[p].db)' /\ IdsRight(proc[p].db)'
      <4>1. Changed(proc[p])' = Changed(proc[p])
        BY <2>2, Zenon DEF vars, Changed, Wild, Database_create, Database_set,
           Database_delete, BlankEntry
      <4>2. InStep(proc[p])'
        BY <4>1, <2>2, <3>4 DEF vars, Inv, InStep, Mixture
      <4>3. HoldsKept(proc[p].db)' /\ IdsRight(proc[p].db)'
        BY <2>2, <3>4 DEF vars, Inv, HoldsKept, Holds, IdsRight
      <4> QED BY <4>2, <4>3
    <3>5. \A p, q \in Procs : proc'[p].pc # "idle" /\ proc'[q].pc # "idle" => p = q
      BY <2>2 DEF vars, Inv
    <3> QED BY <3>1, <3>2, <3>3, <3>4, <3>5 DEF Inv
  <2> QED BY <2>1, <2>2
<1> QED BY <1>1, <1>2, PTL DEF Spec

-----------------------------------------------------------------------------
(* The theorems.                                                           *)

(* What a command that returned has stored is in the file for the next     *)
(* one, whatever becomes of the commands on other rows.                    *)
THEOREM CommandsKeepTheirWord ==
  ASSUME Exclusive
  PROVE  Spec => []AcknowledgedIsStored
<1>1. Inv => AcknowledgedIsStored
  <2> SUFFICES ASSUME Inv, NEW r \in Rows, kept[r] # Unknown,
                      ~(\E p \in Procs : Working(p, r))
               PROVE  Len(file) = Size /\ Holds(file, r, kept[r])
    BY DEF AcknowledgedIsStored, Whole, Holds
  <2>1. CASE \A p \in Procs : proc[p].pc = "idle"
    BY <2>1 DEF Inv, HoldsKept
  <2>2. ASSUME NEW p \in Procs, proc[p].pc # "idle"
        PROVE  Len(file) = Size /\ Holds(file, r, kept[r])
    <3> DEFINE me == proc[p]
    <3>1. /\ Sane(me) /\ InStep(me) /\ HoldsKept(me.db) /\ me.act # "c"
          /\ me.pc \in {"opened", "written"} /\ me.at \in 0 .. Size
          /\ me.act \in {"none", "c", "s", "d"} /\ me.act # "none"
      BY <2>2, RunningFacts DEF Sane, ProcTypes
    <3>2. CASE me.pc = "opened"
      BY <3>1, <3>2 DEF InStep, HoldsKept
    <3>3. CASE me.pc = "written"
      <4>1. r # me.id
        BY <3>1, <3>3 DEF Working
      <4>2. ~Refuses(me) /\ file = Mixture(me, me.at)
        BY <3>1, <3>3 DEF Sane, InStep
      <4> QED BY <4>1, <4>2, <2>2, <3>1, OthersHeld
    <3> QED BY <3>1, <3>2, <3>3
  <2> QED BY <2>1, <2>2
<1> QED BY <1>1, InductiveInvariant, PTL

(* The first program aside, list prints with a row the number get takes.   *)
THEOREM IdsAreRight ==
  ASSUME Exclusive
  PROVE  Spec => []RowsKnowTheirIds
<1>1. Inv => RowsKnowTheirIds
  BY DEF Inv, IdsRight, RowsKnowTheirIds
<1> QED BY <1>1, InductiveInvariant, PTL

(* A set writes a row only if none was set there when it loaded the file:  *)
(* in the new image over the old one, as far as any write got, a row that  *)
(* is set already is the same further on.                                  *)
LEMMA SetRowStays ==
  ASSUME NEW me, Sane(me), me.pc # "idle", ~Refuses(me),
         NEW a \in 0 .. Size, NEW b \in a .. Size, NEW r \in Rows,
         me.act \in {"s", "d"}, me.act = "d" => me.id # r,
         Mixture(me, a)[Entry(r)].set = 1
  PROVE  Mixture(me, b)[Entry(r)] = Mixture(me, a)[Entry(r)]
<1>1. /\ a \in Nat /\ b \in Nat /\ a <= b /\ b \in 0 .. Size /\ Len(me.db) = Size
      /\ Size \in Nat /\ Entry(r) \in 1 .. Size
  BY SizeFacts, CellFacts DEF Sane
<1>2. CASE r # me.id
  <2>1. /\ Mixture(me, a)[Entry(r)] = me.db[Entry(r)]
        /\ Mixture(me, b)[Entry(r)] = me.db[Entry(r)]
    BY <1>1, <1>2, MixtureFacts
  <2> QED BY <2>1
<1>3. CASE r = me.id
  <2>1. me.db[Entry(r)].set # 1
    BY <1>3, ChangedFacts
  <2>2. Mixture(me, a)[Entry(r)] = IF Entry(r) <= a THEN Changed(me)[Entry(r)]
                                   ELSE me.db[Entry(r)]
    BY <1>1, MixtureCells
  <2>3. Mixture(me, b)[Entry(r)] = IF Entry(r) <= b THEN Changed(me)[Entry(r)]
                                   ELSE me.db[Entry(r)]
    BY <1>1, MixtureCells
  <2> QED BY <1>1, <2>1, <2>2, <2>3
<1> QED BY <1>2, <1>3

(* ex17.c:116: only a delete of that row, or create, takes a row that is   *)
(* set.                                                                    *)
THEOREM OnlyDeleteTakesARow ==
  ASSUME Exclusive
  PROVE  Spec => OnlyDeleteClears
<1> DEFINE A == \A r \in Rows :
             Whole /\ Whole' /\ file[Entry(r)].set = 1 /\ file'[Entry(r)] # file[Entry(r)] =>
               \E p \in Procs :
                 \/ proc[p].act = "d" /\ proc[p].id = r
                 \/ proc[p].act = "c"
<1>1. Inv /\ [Next]_vars => [A]_vars
  <2> SUFFICES ASSUME Inv, Next, NEW r \in Rows, Whole, Whole', file[Entry(r)].set = 1,
                      \A p \in Procs : /\ ~(proc[p].act = "d" /\ proc[p].id = r)
                                       /\ proc[p].act # "c"
               PROVE  file'[Entry(r)] = file[Entry(r)]
    OBVIOUS
  <2>1. ASSUME NEW p \in Procs, NEW act, NEW id, NEW val, Opens(p, act, id, val)
        PROVE  file' = file
    <3>1. Len(<<>>) # Size
      BY SizeFacts
    <3> QED BY <3>1, <2>1 DEF Opens, Open, Whole
  <2>2. ASSUME NEW p \in Procs, Die(p) \/ Kill(p) PROVE file' = file
    BY <2>2 DEF Die, Kill
  <2>3. ASSUME NEW p \in Procs, proc[p].pc # "idle" PROVE proc[p].act \in {"s", "d"}
    BY <2>3, RunningFacts DEF Sane, ProcTypes
  <2>4. ASSUME NEW p \in Procs, NEW k \in 0 .. Size, Fwrite(p, k)
        PROVE  file'[Entry(r)] = file[Entry(r)]
    <3> DEFINE me == proc[p]
    <3>1. me.pc = "opened" /\ ~Refuses(me)
      BY <2>4 DEF Fwrite
    <3>2. file = me.db /\ file' = Mixture(me, k) /\ Sane(me) /\ me.act \in {"s", "d"}
      BY <2>3, <2>4, <3>1, FwriteStep, RunningFacts
    <3>3. Mixture(me, 0)[Entry(r)] = me.db[Entry(r)] /\ 0 \in 0 .. Size /\ k \in 0 .. Size
      <4>1. 0 \in 0 .. Size /\ Entry(r) \in 1 .. Len(Mixture(me, 0)) /\ Len(me.db) = Size
        BY <3>1, <3>2, SizeFacts, CellFacts, MixtureFacts DEF Sane
      <4> QED BY <4>1, <3>1, <3>2, CellFacts, MixtureCells
    <3> QED BY <3>1, <3>2, <3>3, SetRowStays
  <2>5. ASSUME NEW p \in Procs, NEW n \in 0 .. Size, NEW rc \in {0, -1}, Fflush(p, n, rc)
        PROVE  file'[Entry(r)] = file[Entry(r)]
    <3> DEFINE me == proc[p]
    <3>1. me.pc = "written" /\ n \in me.at .. Size
      BY <2>5 DEF Fflush
    <3>2. file = Mixture(me, me.at) /\ file' = Mixture(me, n) /\ me.act \in {"s", "d"}
      BY <2>3, <2>5, <3>1, FflushStep
    <3>3. Sane(me) /\ ~Refuses(me) /\ me.at \in 0 .. Size
      BY <3>1, RunningFacts DEF Sane, ProcTypes
    <3> QED BY <3>1, <3>2, <3>3, SetRowStays
  <2> QED BY <2>1, <2>2, <2>4, <2>5, NextCases
<1> QED BY <1>1, InductiveInvariant, PTL DEF Spec, OnlyDeleteClears

(* ex17.c:92, 96: a set or delete that says it failed, and met no error of *)
(* the device, has changed nothing.                                        *)
THEOREM FailedCommandsChangeNothing ==
  ASSUME Exclusive
  PROVE  Spec => FailureChangesNothing
<1> DEFINE A == \A p \in Procs :
             /\ version = "ex17" /\ told' = "failed"
             /\ proc[p].act \in {"s", "d"} /\ proc'[p] = Idle
             => file' = proc[p].db
<1>1. Inv /\ [Next]_vars => [A]_vars
  <2> SUFFICES ASSUME Inv, Next, NEW p \in Procs, version = "ex17", told' = "failed",
                      proc[p].act \in {"s", "d"}, proc'[p] = Idle
               PROVE  file' = proc[p].db
    OBVIOUS
  <2>1. TypeInv /\ proc'[p] # proc[p]
    BY IdleFacts DEF Inv
  <2>2. ASSUME NEW q \in Procs, NEW act, NEW id, NEW val, Opens(q, act, id, val) PROVE FALSE
    BY <2>2 DEF Opens, Open
  <2>3. ASSUME NEW q \in Procs, Kill(q) PROVE FALSE
    BY <2>3 DEF Kill
  <2>4. ASSUME NEW q \in Procs, NEW k \in 0 .. Size, Fwrite(q, k) PROVE FALSE
    BY <2>4 DEF Fwrite
  <2>5. ASSUME NEW q \in Procs, NEW n \in 0 .. Size, NEW rc \in {0, -1}, Fflush(q, n, rc)
        PROVE  FALSE
    BY <2>5 DEF Fflush, Accepts
  <2>6. ASSUME NEW q \in Procs, Die(q) PROVE file' = proc[p].db
    <3>1. q = p
      BY <2>1, <2>6, EndType
    <3> QED BY <3>1, <2>6, DieStep
  <2> QED BY <2>2, <2>3, <2>4, <2>5, <2>6, NextCases
<1> QED BY <1>1, InductiveInvariant, PTL DEF Spec, FailureChangesNothing

=============================================================================
