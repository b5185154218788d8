\* Violated by the code: see the findings in README.md.
CONSTANT Children = {c1, c2}
SPECIFICATION Spec
INVARIANT ReportTrue
