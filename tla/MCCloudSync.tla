---------------------------- MODULE MCCloudSync ----------------------------
(***************************************************************************)
(* Instances of CloudSync for TLC: two users with one tool each, both named n,     *)
(* which is also the name of a built-in tool.                                        *)
(***************************************************************************)
EXTENDS CloudSync, TLC

CONSTANTS fa, fb, alice, bob, n

MCOwner == [f \in File |-> IF f = fa THEN alice ELSE bob]
MCName == [f \in File |-> n]

\* fa was synced by an earlier run, does not compile and is deleted from S3 since; fb
\* is new, and another version in Supabase than in S3.
MCFiles == [f \in File |-> IF f = fa THEN "bad" ELSE None]
MCBucket == [f \in File |-> IF f = fa THEN None ELSE "v1"]
MCSupabase == [f \in File |-> IF f = fa THEN None ELSE "v2"]

A(kind, who, file, form, clean) ==
  [kind |-> kind, who |-> who, file |-> file, form |-> form, clean |-> clean]

MCJob == {A("syncAll", alice, None, "short", TRUE),
          A("syncTool", bob, fb, "category", FALSE),
          A("legacySync", bob, fb, "category", FALSE),
          A("legacyCall", bob, fb, "category", FALSE),
          A("call", alice, fb, "key", FALSE),
          A("call", None, fb, "short", FALSE),
          A("reload", None, None, "short", FALSE)}

\* The object of fb is replaced by a file that is not UTF-8, or bob's upload to
\* Supabase is withdrawn.
MCChange == {[store |-> "s3", file |-> fb, content |-> "raw"],
             [store |-> "supabase", file |-> fb, content |-> None]}

\* Requests are interchangeable.
ThreadSymmetry == Permutations(Thread)

=============================================================================
