SPECIFICATION Spec
CONSTANTS
  Null = Null
  MonthStart <- MCMonthStart
  MonthsPerYear = 2
  HoursEast <- MCHoursEast
  MoneyScale = 10
  PriceScale = 100
  Digits = 4
  Records <- MCRecords
  MetricsClicked = {"total", "eff", "mix"}
INVARIANTS
  TypeOK
  MonthsMatchDays
  AgreesWithSeries
  AxisHoldsData
  ChartTellsItsMonth
  ScreensAgree
  FindingIsTrue
  DotsMatchMonths
  LibraryFigures
PROPERTIES
  ChipDrawsItsYear
