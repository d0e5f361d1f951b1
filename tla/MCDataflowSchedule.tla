------------------------- MODULE MCDataflowSchedule -------------------------
(* Two calendars for the model checker.                                    *)
EXTENDS DataflowSchedule

\* Every instant, and every second one; each names one after the last instant.
TwoCrons == {1..(Horizon + 1), {t \in 1..(Horizon + 2) : t % 2 = 0}}
=============================================================================
