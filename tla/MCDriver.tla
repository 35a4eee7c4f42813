------------------------------ MODULE MCDriver ------------------------------
(* Driver on every file of at most three lines of nine kinds: whole ones   *)
(* for two ids, one for nothing, short ones and a bogus one, under headers *)
(* that fit and headers that do not; on one longer trace; and on pairs of  *)
(* short files, of which the first may fail.                               *)
EXTENDS Driver

L(type, args) == [type |-> type, args |-> args]
F(ids, n, lines) == [num_ids |-> ids, num_ops |-> n, lines |-> lines]

MCLines == {L("a", <<0, 1>>), L("a", <<1, 0>>), L("a", <<1>>),
            L("r", <<0, 1>>), L("r", <<1, 0>>), L("r", <<>>),
            L("f", <<0>>), L("f", <<1>>), L("bogus", <<>>)}

MCFiles ==
  {F(ids, n, lines) : ids \in 0 .. 2, n \in 1 .. 2,
     lines \in UNION {[1 .. k -> MCLines] : k \in 1 .. 2}}
  \cup {F(2, 3, lines) : lines \in [1 .. 3 -> MCLines]}

Longer ==
  F(2, 6, <<L("a", <<0, 1>>), L("a", <<1, 1>>), L("r", <<0, 2>>),
            L("f", <<1>>), L("a", <<1, 2>>), L("f", <<0>>)>>)

MCShort ==
  {F(1, 1, <<L("a", <<0, 1>>)>>), F(1, 1, <<L("a", <<0, 0>>)>>),
   F(1, 2, <<L("a", <<0, 1>>), L("f", <<0>>)>>),
   F(1, 0, <<>>), F(1, 1, <<L("r", <<0, 1>>)>>)}

MCInputs == {<<f>> : f \in MCFiles \cup {Longer}} \cup (MCShort \X MCShort)
MCSizes == {0, 1}
MCMaxRuns == 2

=============================================================================
