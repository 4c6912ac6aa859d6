------------------------------- MODULE MCDaemon -------------------------------
(***************************************************************************)
(* Daemon on small instances, for TLC.                                     *)
(***************************************************************************)
EXTENDS Daemon, TLC

CONSTANTS m1, m2, h1, h2, t1, t2, t3, A, B

OneMac == {m1}
TwoMacs == {m1, m2}
OneHap == {h1}
TwoHaps == {h1, h2}
OneHapOrder == <<h1>>
TwoHapOrder == <<h1, h2>>
OneTimer == {t1}
TwoTimers == {t1, t2}
\* Timers are interchangeable: nothing orders them or names one.
TimerSymmetry == Permutations(Timer)

OneName == {A}
TwoNames == {A, B}

Dev(n, m) == [name |-> n, mac |-> m]

\* Track m1 and stop tracking it.
JustTrack == {<<Dev(A, m1)>>, <<>>}

\* Only ever track m1.
KeepTracking == {<<Dev(A, m1)>>}

\* Two devices, one of them renamed, one without a name, and one whose address
\* does not decode.
TrackTwo == {<<Dev(A, m1), Dev(B, m2)>>, <<Dev(B, m1)>>, <<Dev(None, m2)>>, <<>>,
             <<Dev(A, m1), Dev(A, None)>>}
==============================================================================
