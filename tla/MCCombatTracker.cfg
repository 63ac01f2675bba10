SPECIFICATION Spec
CHECK_DEADLOCK FALSE
SYMMETRY MCSymmetry
CONSTANTS
  o1 = o1
  o2 = o2
  boss = boss
  chief = chief
  roamer = roamer
  dragon = dragon
  dancer = dancer
  colossus = colossus
  core = core
  NoType = NoType
  Ids = {o1, o2}
  Types = {boss, chief, roamer, dragon, dancer, colossus, core}
  Roamers = {roamer}
  Dragons = {dragon}
  Dancers = {dancer}
  SecondComing = {colossus}
  Cores = {core}
  Linked = {colossus, core}
  Casts <- MCCasts
  Timeout = 1
  Window = 2
  MaxHits = 2
  MaxSpawns = 3
  MaxTime = 2
INVARIANTS
  TypeOK
  HitsCountOnce
  OneFightPerBoss
  KillsProven
