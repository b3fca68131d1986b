SPECIFICATION Spec
CONSTANTS
  mine = mine
  home = home
  l1 = l1
  l2 = l2
  frame = frame
  u1 = u1
  w1 = w1
  Procs = {p1}
  Requests = {r1, r2}
  Routes = {home, mine}
  Layouts = {frame}
  Chain <- MCChain
  PerUser = {mine}
  Lists <- MCLists
  Users = {u1}
  Anonymous = anonymous
  Writes = {w1}
  Actor <- MCActor
  None = None
  HasBuildId = TRUE
  Regimes <- MCRegimes
  MaxRelease = 2
  MaxChanges = 1
  MaxCrashes = 1
SYMMETRY Symmetric
CONSTRAINTS WhatMatters NoPromise
INVARIANTS TypeOK CachedForAll ActorSeesOwnWrite ChromeIsCurrent ListIsLive
