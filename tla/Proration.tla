------------------------------ MODULE Proration ------------------------------
(***************************************************************************)
(* The premium arithmetic of fn_apply_endorsement: integer cents, BIGINT   *)
(* intermediates, round half away from zero.                               *)
(***************************************************************************)
EXTENDS Integers

CONSTANT MaxBigint   \* largest value of a BIGINT column (2^63 - 1 in Postgres)

ASSUME BigintAssumption == MaxBigint \in Nat \ {0}

(* A BIGINT expression outside this range raises SQLSTATE 22003. *)
FitsBigint(x) == -MaxBigint - 1 <= x /\ x <= MaxBigint

(* v_numerator: premium change times remaining days. *)
Numerator(old, new, remaining) == (new - old) * remaining

(* Mutants of RoundHalfAway: truncation, and a tie rounded upwards on both sides of zero. *)
TruncatingRound(n, term) == IF n >= 0 THEN n \div term ELSE -((-n) \div term)
RoundHalfUp(n, term) == (2 * n + term) \div (2 * term)

(* round_half_away_from_0(n / term) by integer division. *)
RoundHalfAway(n, term) ==
  IF n >= 0 THEN (2 * n + term) \div (2 * term)
            ELSE -1 * ((2 * (-n) + term) \div (2 * term))

(* Mutant of DeltaCents: the effective day is counted in as well. *)
InclusiveDelta(old, new, remaining, term) ==
  RoundHalfAway(Numerator(old, new, remaining + 1), term)

(* v_delta_cents *)
DeltaCents(old, new, remaining, term) ==
  RoundHalfAway(Numerator(old, new, remaining), term)

(* Every intermediate of the computation is a BIGINT. *)
ProrationFits(old, new, remaining, term) ==
  LET n == Numerator(old, new, remaining)
      magnitude == IF n >= 0 THEN n ELSE -n
  IN /\ FitsBigint(new - old)
     /\ FitsBigint(n)
     /\ FitsBigint(2 * magnitude + term)
     /\ FitsBigint(2 * term)

(* How far apart two amounts are. *)
Distance(x, y) == IF x >= y THEN x - y ELSE y - x

=============================================================================
