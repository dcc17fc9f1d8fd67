---------------------------- MODULE MCApiRequests ----------------------------
(* The values of the code, in seconds.  Outages begin with the job, in the  *)
(* middle of it or when Zyte may be over, and last as long as the backoffs  *)
(* can ride out, a second longer, until Zyte's last attempt, or for good.   *)
EXTENDS ApiRequests

CodeTimeout == [zyte |-> 90, corpus |-> 30]
CodeRetries == [zyte |-> 3, corpus |-> 4]
CodeMinDelay == [zyte |-> 2, corpus |-> 2]
CodeMaxDelay == [zyte |-> 30, corpus |-> 16]

(* The two calls take at most 374 and 180 seconds, "about 6 minutes" and    *)
(* "about 3 minutes" in config.ts.                                          *)
ASSUME CodeBackoff ==
  /\ BackoffTotal("zyte") = 14 /\ BackoffTotal("corpus") = 30
  /\ LongestCall("zyte") = 374 /\ LongestCall("corpus") = 180
  /\ LongestCall("zyte") + LongestCall("corpus") < LockTtl

SomeOutages ==
  LET From(starts, lengths) ==
        {<<0, 0>>} \cup {<<f, f + len>> : f \in starts, len \in lengths}
  IN [zyte |-> From({0}, {14, 15, 280, 1000}),
      corpus |-> From({0, 374}, {30, 31, 380, 1000})]
SomeDurations == [zyte |-> {0, 29, 89, 90}, corpus |-> {0, 14, 29, 30}]
\* JWTs that a request or a retry can just outlive, and one to be renewed.
SomeAges == {260, 284, 290}
=============================================================================
