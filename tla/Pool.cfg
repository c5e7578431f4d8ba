\* Tasks whose clock reading may be a tick old when they take the lock; a
\* reading of now is among the choices, so the event loop is covered too.
CONSTANTS
  t1 = t1
  t2 = t2
  Tasks = {t1, t2}
  N = 3
  Cooldown = 2
  MaxLag = 1
  MaxTime = 5
SPECIFICATION Spec
SYMMETRY TaskSymmetry
INVARIANTS TypeOK NoneStarved
PROPERTIES CooldownHonoured UnavailableOnlyWhenAllCooling
