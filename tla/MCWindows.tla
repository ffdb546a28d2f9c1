------------------------------ MODULE MCWindows ------------------------------
(* Instances of Windows for TLC. *)
EXTENDS Windows

\* Ends of a leap year of 53 weeks (2020) and of a year whose last days belong to
\* week 1 of the next (2024), and the end of a February of 29 days.
YearEnds == {Date(y, 12, 29) : y \in {2020, 2024}} \cup {Date(2024, 2, 27)}

\* A custom id, of a season say, that reads as a month.
ReadsAsMonth == {<<"m", 2020, 11>>}

OneYearEnd == {Date(2026, 12, 28)}
=============================================================================
