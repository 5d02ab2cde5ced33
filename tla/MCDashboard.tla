----------------------------- MODULE MCDashboard -----------------------------
(* A page with one submission, one click and one timer, for TLC. *)
EXTENDS Dashboard

CONSTANTS s1, c1, t1

OneSubmit == {s1}
OneClick == {c1}
OneTimer == {t1}

=============================================================================
