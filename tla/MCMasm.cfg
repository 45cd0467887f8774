SPECIFICATION Spec
CONSTANTS
  MaxArgs = 8
  Size = 16
INVARIANTS
  ArgumentsPushed
  RegistersComeBack
CHECK_DEADLOCK FALSE
