CONSTANT Samples <- AllSamples

SPECIFICATION Spec

INVARIANTS
  Smb2Delivered
  RpcDelivered
  LdapDelivered
  SearchAnswered
  KerberosDelivered
  PolicyDelivered
  PacDelivered
  NtlmDelivered
  AlteredRefused
  CutRefused
