\* Two requests with bodies at and above the limit, declared as such, as the other,
\* or not at all.  Requests are one-shot and the server goes down: the system may stop.
CONSTANTS
  r1 = r1
  r2 = r2
  Requests = {r1, r2}
  MaxBody = 2
  BodySizes = {2, 3}
  Day = 2
  Absent = Absent
  Junk = Junk
  NoPayload = NoPayload
  NoPlanner = NoPlanner
  NoAdapter = NoAdapter
  Payloads <- MCPayloads
  Deployments <- MCDeployments
SPECIFICATION FairSpec
INVARIANTS TypeOK WholeBodiesOnly RefusedForCause PlannerGetsOrderedDay
INVARIANTS PlannedByOne ClosesEachOnce OpenWhileInUse
PROPERTIES CompleteRequestsEnd StopsUnlessReading
CHECK_DEADLOCK FALSE
