\* Two sessions, three asks, one of them for what the policy denies; a rule may be too wide.
CONSTANTS
  s1 = s1
  s2 = s2
  a1 = a1
  a2 = a2
  a3 = a3
  r1 = r1
  r2 = r2
  r3 = r3
  wide = wide
  Session = {s1, s2}
  Rule = {r1, r2, r3, wide}
  Refused = {wide}
  MaxUpdates = 3
  MaxFaults = 1
  Ask = {a1, a2, a3}
  SessionOf <- TwoInOne
  Needs <- OneRuleEach
  Denied = {r3}
SPECIFICATION Spec
INVARIANT TypeOK
INVARIANT DecisionIsOwn
INVARIANT SavesWhatWasAsked
PROPERTY LostOnlyUnseen
PROPERTY UpdatesSettle
CHECK_DEADLOCK FALSE
