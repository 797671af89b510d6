SPECIFICATION Spec
CONSTANTS
  Opt <- MCOpt
  Val <- MCVal
  KeepBare <- MCKeepBare
  KeepPrefix <- MCKeepPrefix
  KeepTwoArg <- MCKeepTwoArg
  Separable <- MCSeparable
  Argvs <- MCArgvs
  ExtraCopts <- MCExtraCopts
  Src <- MCSrc
INVARIANTS
  TypeOK
  FlagsMeanTheSame
