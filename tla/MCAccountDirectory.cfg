SPECIFICATION SceneSpec
CONSTANTS
  t1 = t1  t2 = t2  r1 = r1  r2 = r2  r3 = r3
  basic = basic  super = super  fast = fast  auto = auto
  Token = {t1, t2}
  Pool = {basic, super}
  BasicPool = basic
  Mode = {fast, auto}
  Request = {r1, r2, r3}
  Slots <- MCSlots
  PoolOrders <- MCPoolOrders
  MaxInflight = 2
  TotalQuota = 1
  WindowSec = 1
  CoolingSec = 1
  MaxNow = 2
  NoLease = NoLease
SYMMETRY Symmetry
INVARIANTS TypeOK IndexConsistent AvailablePoolsReservable FailureIsReal InflightMatchesLeases
PROPERTIES ReserveSound RequestsNeverWiden
