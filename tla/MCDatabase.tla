----------------------------- MODULE MCDatabase -----------------------------
(* Database with two rows, so that the writes of a command cover a row it  *)
(* was not asked about, and two values.                                    *)
EXTENDS Database

MCProcs == {"p", "q"}
MCMaxRows == 2
MCValues == {"ann", "bob"}
MCVersions == {"ex17", "ex17-old"}
MCNewVersion == {"ex17"}

=============================================================================
