--------------------------- MODULE CommissionSplit ---------------------------
(***************************************************************************)
(* How a completed booking's price is split between platform and provider. *)
(* Money is a Decimal(10,2), counted here in cents; a commission rate is a *)
(* Decimal(5,2) percentage, counted here in hundredths of a percent, so    *)
(* RateUnit is 100%.  Both are exact: no floating point is involved.       *)
(***************************************************************************)
EXTENDS Integers

RateUnit == 10000

CommissionRates == 0..RateUnit

\* round2(gross * rate / 100), rounded half-up to the cent.
Commission(gross, rate) == (gross * rate + RateUnit \div 2) \div RateUnit

\* Mutant of ProviderNet: the net is rounded on its own.
ProviderNetRounded(gross, rate) ==
    (gross * (RateUnit - rate) + RateUnit \div 2) \div RateUnit

\* Derived from the rounded commission, never rounded independently.
ProviderNet(gross, rate) == gross - Commission(gross, rate)

=============================================================================
