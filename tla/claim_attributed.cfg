SPECIFICATION Spec
CHECK_DEADLOCK FALSE
CONSTANTS
  c1 = c1
  c2 = c2
  c3 = c3
  q1 = q1
  i1 = i1
  i2 = i2
  Calls = {c1, c2, c3}
  RequestOf <- MCRequestOf
  RunScoped <- MCRunScoped
  NoRequest = none
  MaxMishaps = 2
  Runs = {1, 2, 3}
  IssueOf <- MCIssueOf
  Numbers = {1, 2}
  Ensurers = {e1, e2}
  MaxEnsures = 4
  Requesters = {w1, w2}
  Authors = {a1, a2}
  MaxIssues = 3
  MaxComments = 2
  RouteOf <- MCRouteOf
  RefOf <- MCRefOf
  JobsOf <- MCJobsOf
  Gate = 3
  Entries = {2}
  Verify = {2}
  Cleanup = {4}
  Dynamic = {"b"}
  Origins = {"carried", "supplied"}
  MaxEvents = 2
  k1 = k1
  Children = {k1}
  Stages = {1, 2, 3}
  MaxTries = 3
INVARIANTS
  EndIsAttributed
