SPECIFICATION MCSpec
CONSTANTS
  MaxServes = 2
  Turns = {t1}
  Replays = {r1}
INVARIANTS
  OneServe
  WhatOutlivesServe
PROPERTIES
  EveryServeReturns
