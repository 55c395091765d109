SPECIFICATION Spec
CONSTANTS
  None = None
  anna = anna  bert = bert  carl = carl  dora = dora
  ea = ea  eb = eb  ec = ec  ed = ed
  Requests = {q1, q2}
  Ids = {anna, bert, carl, dora}
  Emails = {ea, eb, ec, ed}
  Workload <- EveryRoute
  InitialAccounts <- TwoAdmins
  Crashes = TRUE
  MaxTime = 2
SYMMETRY Symmetry
INVARIANTS UniqueEmails Inductive
PROPERTIES AdministratorsRemain BansLast RawErrorsExplained
