---------------------------- MODULE OpenIDAbstract ----------------------------
(***************************************************************************)
(* What the nonce of the OpenID login promises, whatever the tabs do: the  *)
(* browser issues nonces one flow at a time; an id_token is presented to   *)
(* the server (LoginSTS) only with a nonce the browser issued and that has *)
(* not yet led to a login; a presentation ends by logging in, which uses   *)
(* the nonce up, or by failing or being abandoned, which leaves it usable. *)
(***************************************************************************)
CONSTANTS Nonces        \* the nonces the browser can issue

VARIABLES
    issued,             \* nonces of flows this browser started
    verifying,          \* nonces with a LoginSTS in flight
    used                \* nonces a login succeeded with

avars == <<issued, verifying, used>>

AInit ==
    /\ issued = {}
    /\ verifying = {}
    /\ used = {}

Issue(n) ==
    /\ n \in Nonces \ issued
    /\ issued' = issued \cup {n}
    /\ UNCHANGED <<verifying, used>>

Present(n) ==
    /\ n \in issued \ (used \cup verifying)
    /\ verifying' = verifying \cup {n}
    /\ UNCHANGED <<issued, used>>

LogIn(n) ==
    /\ n \in verifying
    /\ verifying' = verifying \ {n}
    /\ used' = used \cup {n}
    /\ UNCHANGED issued

\* LoginSTS rejected, or its page left before it answered
Drop(n) ==
    /\ n \in verifying
    /\ verifying' = verifying \ {n}
    /\ UNCHANGED <<issued, used>>

ANext == \E n \in Nonces : Issue(n) \/ Present(n) \/ LogIn(n) \/ Drop(n)

ASpec == AInit /\ [][ANext]_avars

=============================================================================
