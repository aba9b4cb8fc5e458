SPECIFICATION Spec
CONSTANTS
  Clients = {c1}
  SERVER = SERVER
  Half = 128
  Residues = {0, 1}
  Letters = {"f", "l"}
  Amounts = {30}
  Powers = {75}
  Garbage = {"FORWARD"}
  MaxKeys = 1
  MaxCuts = 0
PROPERTY PowerAsAsked
CHECK_DEADLOCK FALSE
