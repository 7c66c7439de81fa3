SPECIFICATION Spec
CONSTANTS
  o1 = o1
  o2 = o2
  Objects = {o1, o2}
  LastName = 2
  Values = {1, 2}
  MaxLength = 3
SYMMETRY Symmetric
INVARIANTS TypeOK ViewIsTheMap EqualSetsHashEqual
