----------------------------- MODULE MCEkaStore -----------------------------
(***************************************************************************)
(* Instances of EkaStore for TLC: which form each payload carries, which   *)
(* line and number group each form has.                                    *)
(***************************************************************************)
EXTENDS EkaStore, TLC

CONSTANTS a1, a2, a3, b1, b2, c1, fa, fb, fc, la, lb, lc, ticket, note

\* One form with three bodies, a second form with two.
TwoFormOf     == (a1 :> fa) @@ (a2 :> fa) @@ (a3 :> fa)
                 @@ (b1 :> fb) @@ (b2 :> fb)
TwoLineOf     == (fa :> la) @@ (fb :> lb)
TwoGroupOf    == (fa :> ticket) @@ (fb :> ticket)

\* Three forms of one number group, and one of a group of its own.
LineageFormOf  == (a1 :> fa) @@ (a2 :> fa) @@ (a3 :> fa) @@ (b1 :> fb) @@ (c1 :> fc)
LineageLineOf  == (fa :> la) @@ (fb :> lb) @@ (fc :> lc)
LineageGroupOf == (fa :> ticket) @@ (fb :> ticket) @@ (fc :> ticket)
\* fa and fb are two instance versions of one line.
VersionLineOf == (fa :> la) @@ (fb :> la)

\* One form alone.
RewindFormOf  == (a1 :> fa) @@ (a2 :> fa) @@ (a3 :> fa)
RewindLineOf  == (fa :> la)
RewindGroupOf == (fa :> ticket)
=============================================================================
