CONSTANTS
  Topics = {"DoRongThiTruong", "DoRongThiTruongHNX", "ThanhKhoanPhienHienTai", "PhanNganh",
            "ChiSoTrongNuoc", "LineChart", "StockValue", "TickerChange", "Foreign",
            "ChiSoTrongNuoc2", "CoPhieuAnhHuong", "ChartNenCoPhieu"}
  MaxLog = 2
  MaxCrashes = 1
  Owners <- TwoOwners
  Calls = {1, 2}
  MaxFilters = 2
  q1 = q1
  q2 = q2
  Requests <- TwoRequests
  NewsIds = {0, 1, 5}
  MaxSaves = 2
  MaxSeconds = 2
  Values <- Figures
SPECIFICATION MCSpec
INVARIANTS SyncShowsLatest CommittedWasShown ForeignTogether OnlyOwnerWrites NewsApart SellNotAhead PairWhole ImageThere
           StarsGrow RankStarsGrow ComparedStarsGrow TotalsGrow
           OneCodePerUser PhoneUnique AnswersWhole
PROPERTIES DeletedStaysDeleted ImageGoesForward VerifiedStays
SYMMETRY Symmetry
CHECK_DEADLOCK FALSE
