SPECIFICATION FairSpec
CONSTANTS
  Clients = {c1}
  SERVER = SERVER
  Half = 128
  Residues = {1}
  Letters = {"k", "K", "a"}
  Amounts = {30}
  Powers = {75}
  Garbage = {"FORWARD"}
  MaxKeys = 1
  MaxCuts = 0
PROPERTY KeysObeyed
CHECK_DEADLOCK FALSE
