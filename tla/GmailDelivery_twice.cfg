SPECIFICATION MailSpec
CONSTANTS
  Mails = {m1}
  MailSessions = {s1, s2}
  NoMail = NoMail
  MaxPosts = 2
CHECK_DEADLOCK FALSE
INVARIANTS
  SubmittedOnce
