----------------------------- MODULE RfpPricing ------------------------------
(* The computed cost estimate of a proposal.  Amounts are whole cents, rates *)
(* whole percents, storage hundredths of a cubic metre.                      *)
EXTENDS Integers

CONSTANT Volumes    \* monthly volumes an RFP may state; 0 is none

VARIABLE quote      \* the currency and the volume being priced

Currencies == {"none", "USD", "EUR"}

PriceInit == quote \in [currency : Currencies, volume : Volumes]

LastMile == [USD |-> 640, EUR |-> 580]
ReturnsProcessing == [USD |-> 390, EUR |-> 350]
StoragePerCubicMeter == [USD |-> 1800, EUR |-> 1600]

\* quantize(..., ROUND_HALF_UP) of n / d
HalfUp(n, d) == (2 * n + d) \div (2 * d)

Code(q) == IF q.currency = "none" THEN "USD" ELSE q.currency
Volume(q) == IF q.volume <= 0 THEN 1000 ELSE q.volume

DiscountForVolume(volume) ==
  IF volume >= 20000 THEN 12 ELSE IF volume >= 5000 THEN 8 ELSE IF volume >= 1000 THEN 5 ELSE 0

Storage(q) == HalfUp(HalfUp(12 * Volume(q), 10) * StoragePerCubicMeter[Code(q)], 100)
Fulfilment(q) ==
  Volume(q) * LastMile[Code(q)] + HalfUp(6 * Volume(q), 100) * ReturnsProcessing[Code(q)]
\* mutant: the tier is applied to the whole estimate
DiscountOnAll(q) == HalfUp((Fulfilment(q) + Storage(q)) * DiscountForVolume(Volume(q)), 100)
Discount(q) == HalfUp(Fulfilment(q) * DiscountForVolume(Volume(q)), 100)
Total(q) == Fulfilment(q) + Storage(q) - Discount(q)

-----------------------------------------------------------------------------
\* The ranges the tiers are labelled with in the proposal.
Tiers == {[from |-> 0, to |-> 999, rate |-> 0], [from |-> 1000, to |-> 4999, rate |-> 5],
          [from |-> 5000, to |-> 19999, rate |-> 8], [from |-> 20000, to |-> 1000000, rate |-> 12]}

\* build_cost_breakdown: what the client pays is the storage at its full price
\* and the fulfilment less the rate printed beside the volume's range, to the
\* nearest cent, at every boundary of the tiers and of the rounding.
QuoteIsPublished ==
  \A tier \in Tiers :
    Volume(quote) \in tier.from .. tier.to =>
      LET exact == (100 - tier.rate) * Fulfilment(quote)
      IN 100 * (Total(quote) - Storage(quote)) - exact \in -50 .. 50
=============================================================================
