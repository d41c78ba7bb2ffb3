SPECIFICATION Spec
CONSTANTS
  User = {u1, u2}
  Nobody = Nobody
  CoursePage = {c1}
  PublicPage = {p1}
  Away = Away
  Bank = Bank
  NoText = NoText
  MaxPolls = 1
  MaxSubmissions = 2
INVARIANTS TypeOK DraftsApart VerdictOwn TrialHonest ShellAgrees OneWait
SYMMETRY Symmetry
VIEW View
