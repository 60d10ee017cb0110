CONSTANTS
  s1 = s1
  s2 = s2
  s3 = s3
  Senders = {s1}
  Tasks = {k1, k2}
  Stripe <- Striped
  MaxSenders = 1
  MaxPairs = 2
  Budget = 9
  Ttl = 1
  Sizes <- Lengths
  MaxTurns <- Questions
SPECIFICATION Spec
PROPERTY ForgottenStaysForgotten
