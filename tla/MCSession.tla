----------------------------- MODULE MCSession -----------------------------
(* Small instances of Session.                                             *)
EXTENDS Session

Table(f3, f4, f5) ==
  [n \in 0..5 |-> CASE n < 3 -> "file" [] n = 3 -> f3 [] n = 4 -> f4 [] OTHER -> f5]

\* A host with nothing else open, and hosts where another descriptor is open
\* above the listener of another session.
Hosts == {Table("none", "none", "none"), Table("notify", "file", "none"),
          Table("file", "notify", "file")}

Run(c, m, t, l) == [client |-> c, mode |-> m, timeout |-> t, limited |-> l]
SomeRuns ==
  {Run("run", "none", TRUE, TRUE), Run("run_stream", "none", FALSE, FALSE),
   Run("shell", "none", FALSE, FALSE), Run("shell", "buffered", FALSE, FALSE),
   Run("wait", "buffered", FALSE, FALSE), Run("cli", "raw", TRUE, FALSE)}
=============================================================================
