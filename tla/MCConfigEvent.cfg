SPECIFICATION Spec
CONSTANTS
  c1 = c1
  c2 = c2
  w1 = w1
  Clusters = {c1, c2}
  Workers = {w1}
PROPERTY InvalidNotApplied
