SPECIFICATION Spec
CONSTANTS
  Null = Null
  MonthStart <- MCHalfMonths
  MonthsPerYear = 2
  HoursEast <- MCHalfHours
  MoneyScale = 10
  PriceScale = 100
  Digits = 4
  Records <- MCHalfRecords
  MetricsClicked = {"total", "mix"}
INVARIANT
  AgreesToTheDigit
