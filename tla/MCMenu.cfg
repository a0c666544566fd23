CONSTANTS
  a = a
  c = c
  food = food
  drink = drink
  Plain = {a}
  Combos = {c}
  Categories = {food, drink}
  CategoryOf <- MCCategoryOf
  BasePrices = {2, 4}
  OutletPrices = {1}
  NoPrice = NoPrice
  Deals <- MCDeals
  HappyPercent = 50
  Screens = {s1}
  MaxRevision = 3
  Scarce = {a}
  MaxMinute = 1
SPECIFICATION MenuSpec
CHECK_DEADLOCK FALSE
INVARIANTS
  ETagHonest
  MenuMatchesQuote
  CombosFollowParts
