CONSTANTS
  p = p
  q = q
  t = t
  u = u
  r = r
  Offers <- MCOffers
  Priority = {q}
  Target = 2
  Batch = 2
  UseLimit = 1
  MaxUses = 1
  Requests = {r}
  Unsteady <- MCUnsteady
SPECIFICATION Spec
PROPERTIES RunningNotFailed StaleListingRefused FailedForCause EligibleIsQueued
