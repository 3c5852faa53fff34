\* Every string made by up to two generated keys and one other call, given to every call.
SPECIFICATION Spec
CONSTANTS
  Pair = {rsa1, rsa2, ed, p256, p521, e256, e521}
  Ephemeral = {e256, e521}
  KindOf <- MCKindOf
  Secret = {s1, s2}
  Nonce = {n1, n2}
  Text = {plain, marked}
  Utf8 <- MCUtf8
  Shown <- MCShown
  Short = {plainBytes}
  Undefined = Undefined
  NoBytes = NoBytes
  CloudKey = {awsData, awsSign, azure, gcpPss, gcpPkcs1, gcpEc}
  ProviderOf <- MCProviderOf
  UsageOf <- MCUsageOf
  Additional = {Undefined, plain}
  MaxKeys = 2
  MaxMade = 2
  Failed = Failed
  Verified = Verified
  Refuted = Refuted
  rsa1 = rsa1
  rsa2 = rsa2
  ed = ed
  p256 = p256
  p521 = p521
  e256 = e256
  e521 = e521
  awsData = awsData
  awsSign = awsSign
  azure = azure
  gcpPss = gcpPss
  gcpPkcs1 = gcpPkcs1
  gcpEc = gcpEc
  plain = plain
  marked = marked
  plainBytes = plainBytes
  markedBytes = markedBytes
INVARIANTS RoundTrips VerifiesWhatWasSigned GeneratedKeysServe
CHECK_DEADLOCK FALSE
